---------------------------- MODULE Spec2Model ----------------------------
(***************************************************************************)
(* Model of the remap backend: content hashing, the keyed JSON delta, the  *)
(* tabular (CSV) delta and the two ingestion entry points                  *)
(* (ingest_events_from_file, ingest_ticketsqueeze_delta) working against   *)
(* the vector index.                                                       *)
(*                                                                         *)
(* Conventions.                                                            *)
(*  - A text (Python str) is a sequence of one-character strings.          *)
(*  - A JSON object / dict is a function whose domain is its set of keys;  *)
(*    dict.get(k, d) is Get(e, k, d).                                      *)
(*  - SHA-256 is modelled as an injective function of the hashed text: the *)
(*    digest of a text is a record holding that text.                      *)
(*  - In the ingestion part natural keys are the strings "k1", "k2" and    *)
(*    the point ids that uuid4() produces are the strings "u1", "u2", ..., *)
(*    so a natural key used as a point id never equals a generated one.    *)
(***************************************************************************)
EXTENDS Integers, Sequences, FiniteSets, TLC

VARIABLES
    \* ---- delta classifier (pure functions applied to drawn inputs)
    oldExists,      \* old_file.exists()
    oldEvents,      \* "events" of the previous snapshot file
    newEvents,      \* "events" of the current snapshot file
    jsonDelta,      \* result of compute_json_delta, or NotComputed
    csvOld,         \* the previous CSV as read by read_csv
    csvNew,         \* the current CSV
    csvKeys,        \* key_cols
    csvDelta,       \* result of compute_csv_delta, or NotComputed
    ev1,            \* two versions of one record (hash consistency)
    ev2,
    hashes,         \* the hashes computed for ev1 / ev2, or NotComputed
    \* ---- vector index (Qdrant collection)
    index,          \* the points the index serves to reads
    pending,        \* upserts acknowledged with wait=False, not yet applied
    \* ---- the ingestion request being handled
    pc,             \* position of the handler
    entry,          \* "file" (ingest_events_from_file) / "tsq" (ingest_ticketsqueeze_delta)
    events,         \* "events" of the uploaded file (the file stays in DATASET_DIR)
    active,         \* the list the batch loop runs over
    start,          \* offset of the current batch
    pos,            \* position in the current batch of the next record to check
    points,         \* points built for the current batch
    inserted,
    updated,
    skipped_unchanged,
    deleted_count,
    result,         \* what the handler returned
    log,            \* observation of the current run
    prev,           \* result and observation of the run before a re-run
    runs,           \* number of runs started
    \* ---- the geocoding phase of ingest_events_from_file (asyncio tasks)
    gtask,          \* per record: where its geocode_event task stands
    sem,            \* value of asyncio.Semaphore(5)
    waiters,        \* tasks blocked in semaphore.acquire(), first in first out
    sinceReq,       \* time since the last outbound request, in sleep units
    glog,           \* observation of the geocoding phase
    \* ---- the lookup cache of openroute_service (cache.db) and one call
    clock,          \* time.time(), in ticks
    geocode_cache,  \* rows of table geocode_cache
    route_cache,    \* rows of table route_cache
    call,           \* the geocode_address / get_route call in progress
    clog,           \* observation of the calls made
    \* ---- one /create_map request against a collection
    request,        \* the JSON body posted
    collection,     \* the points of the collection, with their scores for the query
    query,          \* position and observations of create_event_map
    \* ---- one /cleanup-past-events request (works on index and pending)
    sweep,          \* position and observations of cleanup_past_events
    \* ---- one text given to the two normalize_text functions
    norm,           \* the text and what the functions returned for it
    \* ---- geocode_address calls handled at the same time on one cache.db
    workers         \* per worker: the geocode_address call it is in

deltaVars == <<oldExists, oldEvents, newEvents, jsonDelta, csvOld, csvNew, csvKeys, csvDelta>>
hashVars  == <<ev1, ev2, hashes>>
indexVars == <<index, pending>>
runVars   == <<pc, entry, events, active, start, pos, points, inserted, updated,
               skipped_unchanged, deleted_count, result, log, prev, runs>>
ingestVars == <<indexVars, runVars>>
geoVars   == <<gtask, sem, waiters, sinceReq, glog>>
cacheVars == <<clock, geocode_cache, route_cache, call, clog>>
queryVars == <<request, collection, query>>
extraVars == <<queryVars, sweep, norm, workers>>
vars == <<deltaVars, hashVars, ingestVars, geoVars, cacheVars, extraVars>>

NotComputed == [status |-> "not_computed"]
Unused == [status |-> "unused"]

\* the ingestion variables while a specification does not use them
IngestIdle ==
    /\ index = {} /\ pending = <<>>
    /\ pc = "unused" /\ entry = "none" /\ events = <<>> /\ active = <<>>
    /\ start = 0 /\ pos = 0 /\ points = <<>>
    /\ inserted = 0 /\ updated = 0 /\ skipped_unchanged = 0 /\ deleted_count = 0
    /\ result = Unused /\ log = Unused /\ prev = Unused /\ runs = 0

(***************************************************************************)
(* Python helpers                                                          *)
(***************************************************************************)
Get(e, k, d) == IF k \in DOMAIN e THEN e[k] ELSE d

Range(s) == {s[i] : i \in 1..Len(s)}

Take(s, n) == SubSeq(s, 1, IF n < Len(s) THEN n ELSE Len(s))

\* Characters for which str.isspace() holds.
Whitespace == {" ", "NBSP"}

RECURSIVE lstrip(_)
lstrip(t) == IF t # <<>> /\ Head(t) \in Whitespace THEN lstrip(Tail(t)) ELSE t

RECURSIVE rstrip(_)
rstrip(t) ==
    IF t # <<>> /\ t[Len(t)] \in Whitespace
    THEN rstrip(SubSeq(t, 1, Len(t) - 1))
    ELSE t

strip(t) == rstrip(lstrip(t))

\* unicodedata.normalize("NFKC", c) of one character: compatibility
\* characters decompose, every other character of the alphabet is kept.
NfkcChar(c) ==
    CASE c = "LIG_FI" -> <<"f", "i">>      \* U+FB01
      [] c = "NBSP"   -> <<" ">>           \* U+00A0 (is whitespace for strip)
      [] c = "DIAERESIS" -> <<" ", "COMBINING_DIAERESIS">>   \* U+00A8 -> U+0020 U+0308
      [] OTHER        -> <<c>>

RECURSIVE Nfkc(_)
Nfkc(t) ==
    IF t = <<>> THEN <<>>
    ELSE IF Len(t) = 1 THEN NfkcChar(t[1])
    ELSE LET half == Len(t) \div 2
         IN Nfkc(SubSeq(t, 1, half)) \o Nfkc(SubSeq(t, half + 1, Len(t)))

TEXT_CAP == 1000

\* ingest_service.normalize_text (and its copy inside
\* ingest_ticketsqueeze_delta): strip, cap, NFKC.
normalize_text(text) ==
    IF text = <<>> THEN <<>> ELSE Nfkc(Take(strip(text), TEXT_CAP))

\* hashlib.sha256(text.encode("utf-8")).hexdigest()
sha256(text) == [sha256 |-> text]

calculate_hash(text) == sha256(text)

\* json_delta_service.generate_content_hash
generate_content_hash(event) ==
    sha256(Get(event, "title", <<>>) \o Get(event, "description", <<>>)
           \o Get(event, "start_date", <<>>) \o Get(event, "end_date", <<>>))

\* The hash ingestion stores and compares for a record
\* (chunk_hash = calculate_hash(texts[i])).
chunk_hash(event) == calculate_hash(normalize_text(Get(event, "description", <<>>)))

(***************************************************************************)
(* Keyed JSON delta                                                        *)
(***************************************************************************)
\* e["delta_type"] = t
Tag(e, t) ==
    [k \in DOMAIN e \cup {"delta_type"} |-> IF k = "delta_type" THEN t ELSE e[k]]

\* {e['id']: e for e in events}: the keys in first-insertion order ...
RECURSIVE DictKeys(_)
DictKeys(evs) ==
    IF evs = <<>> THEN <<>>
    ELSE LET init == SubSeq(evs, 1, Len(evs) - 1)
             last == evs[Len(evs)]
             ks   == DictKeys(init)
         IN IF last["id"] \in Range(ks) THEN ks ELSE Append(ks, last["id"])

\* ... and for each key the last event carrying it.
DictValue(evs, eid) ==
    LET idx == {i \in 1..Len(evs) : evs[i]["id"] = eid}
    IN evs[CHOOSE i \in idx : \A j \in idx : j <= i]

\* Faulty variant: the content check compares with the first previous record, that
\* is by position instead of by key.
RECURSIVE DetectAddedChanged_ByPosition(_, _, _)
DetectAddedChanged_ByPosition(keys, old, new) ==
    IF keys = <<>> THEN <<>>
    ELSE LET eid    == Head(keys)
             new_ev == DictValue(new, eid)
             rest   == DetectAddedChanged_ByPosition(Tail(keys), old, new)
         IN IF eid \notin Range(DictKeys(old))
            THEN <<Tag(new_ev, "added")>> \o rest
            ELSE IF generate_content_hash(new_ev) # generate_content_hash(old[1])
                 THEN <<Tag(new_ev, "changed")>> \o rest
                 ELSE rest

\* Loop 1 of compute_json_delta ("Detect Added and Changed") over new_map.
RECURSIVE DetectAddedChanged(_, _, _)
DetectAddedChanged(keys, old, new) ==
    IF keys = <<>> THEN <<>>
    ELSE LET eid    == Head(keys)
             new_ev == DictValue(new, eid)
             rest   == DetectAddedChanged(Tail(keys), old, new)
         IN IF eid \notin Range(DictKeys(old))
            THEN <<Tag(new_ev, "added")>> \o rest
            ELSE IF generate_content_hash(new_ev)
                    # generate_content_hash(DictValue(old, eid))
                 THEN <<Tag(new_ev, "changed")>> \o rest
                 ELSE rest

\* Faulty variant: the second loop is missing, removed records are not reported.
DetectRemoved_Missing(keys, old, new) == <<>>

\* Loop 2 of compute_json_delta ("Detect Removed") over old_map.
RECURSIVE DetectRemoved(_, _, _)
DetectRemoved(keys, old, new) ==
    IF keys = <<>> THEN <<>>
    ELSE LET eid  == Head(keys)
             rest == DetectRemoved(Tail(keys), old, new)
         IN IF eid \notin Range(DictKeys(new))
            THEN <<Tag(DictValue(old, eid), "removed")>> \o rest
            ELSE rest

HasId(e) == "id" \in DOMAIN e

compute_json_delta(exists, old, new) ==
    IF ~exists
    THEN [status |-> "ok", events |-> [i \in 1..Len(new) |-> Tag(new[i], "added")]]
    ELSE IF \E i \in 1..Len(old) : ~HasId(old[i])
         THEN [status |-> "KeyError"]
    ELSE IF \E i \in 1..Len(new) : ~HasId(new[i])
         THEN [status |-> "KeyError"]
    ELSE [status |-> "ok",
          events |-> DetectAddedChanged(DictKeys(new), old, new)
                     \o DetectRemoved(DictKeys(old), old, new)]

(***************************************************************************)
(* Tabular (CSV) delta.  A DataFrame is [cols |-> sequence of column       *)
(* names, rows |-> sequence of rows], a row being a function from column   *)
(* name to the cell's string (read_csv(dtype=str).fillna("")).             *)
(***************************************************************************)
\* Lexicographic order of the cell strings that occur as key values.
CsvValueOrder == <<"1", "2", "3">>

Rank(v) == CHOOSE i \in 1..Len(CsvValueOrder) : CsvValueOrder[i] = v

\* Order of index labels (tuples of key cells), as Index.sort_values orders them.
RECURSIVE LabelLess(_, _)
LabelLess(a, b) ==
    IF a = <<>> \/ b = <<>> THEN FALSE
    ELSE IF Head(a) = Head(b) THEN LabelLess(Tail(a), Tail(b))
    ELSE Rank(Head(a)) < Rank(Head(b))

RECURSIVE SortLabels(_)
SortLabels(S) ==
    IF S = {} THEN <<>>
    ELSE LET m == CHOOSE x \in S : \A y \in S : ~LabelLess(y, x)
         IN <<m>> \o SortLabels(S \ {m})

\* df.set_index(key_cols, drop=False).index: one label per row
LabelOf(row, key_cols) == [i \in 1..Len(key_cols) |-> row[key_cols[i]]]

IndexLabels(df, key_cols) ==
    [i \in 1..Len(df.rows) |-> LabelOf(df.rows[i], key_cols)]

\* Index.unique: first occurrences, in the order of the index
RECURSIVE Unique(_)
Unique(s) ==
    IF s = <<>> THEN <<>>
    ELSE LET init == Unique(SubSeq(s, 1, Len(s) - 1))
         IN IF s[Len(s)] \in Range(init) THEN init ELSE Append(init, s[Len(s)])

\* Index.difference: unique and sorted; against an empty index it is
\* self.unique(), left in the order of self
IndexDifference_Reversed(a, b) ==
    IF a = <<>> THEN Unique(b) ELSE SortLabels(Range(b) \ Range(a))

IndexDifference(a, b) ==
    IF b = <<>> THEN Unique(a) ELSE SortLabels(Range(a) \ Range(b))

\* Index.intersection: unique, in the order of the left index
IndexIntersection(a, b) ==
    LET InB(x) == x \in Range(b) IN Unique(SelectSeq(a, InB))

\* df.loc[labels]: for each label in turn, every row carrying it, in file order
RECURSIVE Loc(_, _, _)
Loc(df, key_cols, labels) ==
    IF labels = <<>> THEN <<>>
    ELSE LET Has(r) == LabelOf(r, key_cols) = Head(labels)
         IN SelectSeq(df.rows, Has) \o Loc(df, key_cols, Tail(labels))

\* sort_index(): stable for the short frames considered (insertion sort)
RECURSIVE InsertRow(_, _, _)
InsertRow(sorted, r, key_cols) ==
    IF sorted = <<>> THEN <<r>>
    ELSE IF LabelLess(LabelOf(r, key_cols), LabelOf(Head(sorted), key_cols))
         THEN <<r>> \o sorted
         ELSE <<Head(sorted)>> \o InsertRow(Tail(sorted), r, key_cols)

RECURSIVE sort_index(_, _)
sort_index(rows, key_cols) ==
    IF rows = <<>> THEN <<>>
    ELSE InsertRow(sort_index(SubSeq(rows, 1, Len(rows) - 1), key_cols),
                   rows[Len(rows)], key_cols)

\* dict.fromkeys(list(a) + list(b)): ordered union of column names
OrderedUnion(a, b) == Unique(a \o b)

\* reindex(columns=all_cols, fill_value="")
Reindex(row, all_cols) == [c \in Range(all_cols) |-> Get(row, c, "")]

\* prefix_df: every column outside keep_keys is renamed prefix + column
PrefixName(c, prefix, keep_keys) ==
    IF c \in Range(keep_keys) THEN c ELSE prefix \o c

prefix_df(row, prefix, keep_keys) ==
    [n \in {PrefixName(c, prefix, keep_keys) : c \in DOMAIN row} |->
        row[CHOOSE c \in DOMAIN row : PrefixName(c, prefix, keep_keys) = n]]

\* frame["delta_type"] = t for one row
WithDeltaType(row, t) ==
    [c \in DOMAIN row \cup {"delta_type"} |-> IF c = "delta_type" THEN t ELSE row[c]]

\* pd.concat([left_pref, right_pref.drop(columns=key_cols)], axis=1) for one row
ConcatColumns(l, r, key_cols) ==
    [c \in DOMAIN l \cup (DOMAIN r \ Range(key_cols)) |->
        IF c \in DOMAIN l THEN l[c] ELSE r[c]]

MapRows(rows, F(_)) == [i \in 1..Len(rows) |-> F(rows[i])]

\* pd.concat(records, ignore_index=True, sort=False).fillna(""): every row
\* gets every column of the result, absent cells becoming ""
FillRows(rows) ==
    LET cols == UNION {DOMAIN rows[i] : i \in 1..Len(rows)}
    IN [i \in 1..Len(rows) |-> [c \in cols |-> Get(rows[i], c, "")]]

CountTrue(mask) == Cardinality({i \in 1..Len(mask) : mask[i]})

compute_csv_delta(df_old, df_new, key_cols) ==
    IF \E i \in 1..Len(key_cols) :
          key_cols[i] \notin Range(df_old.cols) \/ key_cols[i] \notin Range(df_new.cols)
    THEN [status |-> "HTTPException", code |-> 400]
    ELSE
    LET idx_old     == IndexLabels(df_old, key_cols)
        idx_new     == IndexLabels(df_new, key_cols)
        added_idx   == IndexDifference(idx_new, idx_old)
        removed_idx == IndexDifference(idx_old, idx_new)
        common_idx  == IndexIntersection(idx_old, idx_new)
        AddedRow(r)   == WithDeltaType(prefix_df(r, "new_", key_cols), "added")
        RemovedRow(r) == WithDeltaType(prefix_df(r, "old_", key_cols), "removed")
        added   == MapRows(Loc(df_new, key_cols, added_idx), AddedRow)
        removed == MapRows(Loc(df_old, key_cols, removed_idx), RemovedRow)
        all_cols == OrderedUnion(df_old.cols, df_new.cols)
        ReindexAll(r) == Reindex(r, all_cols)
        left    == MapRows(sort_index(Loc(df_old, key_cols, common_idx), key_cols), ReindexAll)
        right   == MapRows(sort_index(Loc(df_new, key_cols, common_idx), key_cols), ReindexAll)
        non_key_cols == {c \in Range(all_cols) : c \notin Range(key_cols)}
        \* left != right is defined only for identically labelled frames
        aligned == /\ Len(left) = Len(right)
                   /\ \A i \in 1..Len(left) :
                         LabelOf(left[i], key_cols) = LabelOf(right[i], key_cols)
        diff_mask == [i \in 1..Len(left) |->
                         \E c \in non_key_cols : left[i][c] # right[i][c]]
        ChangedAt(i) ==
            WithDeltaType(ConcatColumns(prefix_df(left[i], "old_", key_cols),
                                        prefix_df(right[i], "new_", key_cols),
                                        key_cols), "changed")
        diffPos == SelectSeq([i \in 1..Len(left) |-> i], LAMBDA i : diff_mask[i])
        changed == [j \in 1..Len(diffPos) |-> ChangedAt(diffPos[j])]
        df_all  == FillRows(added \o removed \o changed)
    IN IF ~aligned
       THEN [status |-> "ValueError"]
       ELSE IF Len(df_all) = 0
       THEN [status |-> "ok", rows |-> <<>>,
             summary |-> [added |-> 0, removed |-> 0, changed |-> 0, total |-> 0]]
       ELSE [status |-> "ok", rows |-> df_all,
             summary |-> [added   |-> Len(added_idx),
                          removed |-> Len(removed_idx),
                          changed |-> CountTrue(diff_mask),
                          total   |-> Len(df_all)]]

(***************************************************************************)
(* Inputs of the delta classifier                                          *)
(***************************************************************************)
MaxSnapshot == 2

Keys == {1, 2}

Event(k, t, d) ==
    [id |-> k, title |-> t, description |-> d,
     start_date |-> <<"1">>, end_date |-> <<"2">>]

DeltaContents == {<<<<"t">>, <<"a">>>>, <<<<"t">>, <<"b">>>>, <<<<"u">>, <<"a">>>>}

DeltaEvents ==
    {Event(k, c[1], c[2]) : k \in Keys, c \in DeltaContents}
    \cup {[title |-> <<"t">>, description |-> <<"a">>]}       \* a record without id

SeqsUpTo(S, n) == UNION {[1..m -> S] : m \in 0..n}

Snapshots == SeqsUpTo(DeltaEvents, MaxSnapshot)

CsvCols == <<"event_id", "name">>

CsvRows == {[event_id |-> k, name |-> n] : k \in {"1", "2"}, n \in {"a", "b"}}

\* a file without the key column
NoKeyFrame == [cols |-> <<"name">>, rows |-> <<[name |-> "a"]>>]

CsvFrames ==
    {[cols |-> CsvCols, rows |-> r] : r \in SeqsUpTo(CsvRows, MaxSnapshot)}
        \cup {NoKeyFrame}

EmptyFrame == [cols |-> <<>>, rows |-> <<>>]

JsonIdle ==
    /\ oldExists = FALSE /\ oldEvents = <<>> /\ newEvents = <<>>
    /\ jsonDelta = Unused

CsvIdle ==
    /\ csvOld = EmptyFrame /\ csvNew = EmptyFrame /\ csvKeys = <<>>
    /\ csvDelta = Unused

JsonDeltaInit ==
    /\ oldExists \in BOOLEAN
    /\ oldEvents \in Snapshots
    /\ oldExists = FALSE => oldEvents = <<>>
    /\ newEvents \in Snapshots
    /\ jsonDelta = NotComputed
    /\ CsvIdle

CsvDeltaInit ==
    /\ csvOld \in CsvFrames
    /\ csvNew \in CsvFrames
    /\ csvKeys = <<"event_id">>
    /\ csvDelta = NotComputed
    /\ JsonIdle

DeltaInit == JsonDeltaInit \/ CsvDeltaInit

ComputeJsonDelta ==
    /\ jsonDelta = NotComputed
    /\ jsonDelta' = compute_json_delta(oldExists, oldEvents, newEvents)
    /\ UNCHANGED <<oldExists, oldEvents, newEvents, csvOld, csvNew, csvKeys, csvDelta>>
    /\ UNCHANGED <<hashVars, ingestVars, geoVars, cacheVars, extraVars>>

ComputeCsvDelta ==
    /\ csvDelta = NotComputed
    /\ csvDelta' = compute_csv_delta(csvOld, csvNew, csvKeys)
    /\ UNCHANGED <<oldExists, oldEvents, newEvents, jsonDelta, csvOld, csvNew, csvKeys>>
    /\ UNCHANGED <<hashVars, ingestVars, geoVars, cacheVars, extraVars>>

HashIdle == /\ ev1 = <<>> /\ ev2 = <<>> /\ hashes = Unused

DeltaIdle == JsonIdle /\ CsvIdle

GeoIdle ==
    /\ gtask = <<>> /\ sem = 0 /\ waiters = <<>> /\ sinceReq = 0 /\ glog = Unused

CacheIdle ==
    /\ clock = 0 /\ geocode_cache = {} /\ route_cache = {}
    /\ call = Unused /\ clog = Unused

QueryIdle == request = Unused /\ collection = {} /\ query = Unused

SweepIdle == sweep = Unused

NormIdle == norm = Unused

WorkersIdle == workers = <<>>

ExtraIdle == QueryIdle /\ SweepIdle /\ NormIdle /\ WorkersIdle

SpecDeltaInit == DeltaInit /\ HashIdle /\ IngestIdle /\ GeoIdle /\ CacheIdle /\ ExtraIdle

SpecDeltaNext == ComputeJsonDelta \/ ComputeCsvDelta

SpecDelta == SpecDeltaInit /\ [][SpecDeltaNext]_vars

(***************************************************************************)
(* Two versions of one record, hashed by the delta classifier and by       *)
(* ingestion                                                               *)
(***************************************************************************)
HashTexts == {<<>>, <<"a">>, <<" ", "a">>, <<"b">>}

HashDates == {<<"1">>, <<"2">>}

HashEvents ==
    {[id |-> 1, title |-> t, description |-> d, start_date |-> sd, end_date |-> ed] :
        t \in {<<>>, <<"a">>}, d \in HashTexts, sd \in HashDates, ed \in HashDates}

HashInit ==
    /\ ev1 \in HashEvents
    /\ ev2 \in HashEvents
    /\ hashes = NotComputed

ComputeHashes ==
    /\ UNCHANGED <<deltaVars, ingestVars, geoVars, cacheVars, extraVars>>
    /\ hashes = NotComputed
    /\ hashes' = [status   |-> "ok",
                  content1 |-> generate_content_hash(ev1),
                  content2 |-> generate_content_hash(ev2),
                  chunk1   |-> chunk_hash(ev1),
                  chunk2   |-> chunk_hash(ev2)]
    /\ UNCHANGED <<ev1, ev2>>

SpecHashInit == HashInit /\ DeltaIdle /\ IngestIdle /\ GeoIdle /\ CacheIdle /\ ExtraIdle

SpecHashNext == ComputeHashes

SpecHash == SpecHashInit /\ [][SpecHashNext]_vars

\* C5: for two versions of a record with the same id, generate_content_hash
\* differs between them exactly when the hash ingestion stores and compares
\* (calculate_hash of the normalized description) differs.
C5_HashesAgree ==
    hashes.status = "ok" =>
        ((hashes.content1 # hashes.content2) <=> (hashes.chunk1 # hashes.chunk2))

(***************************************************************************)
(* Claims about the delta classifier (checked under SpecDelta)             *)
(***************************************************************************)
IdsOf(evs) == {evs[i]["id"] : i \in {j \in 1..Len(evs) : HasId(evs[j])}}

\* the record a snapshot holds for an id: its last record carrying the id
IsRecordOf(e, evs, k) ==
    \E i \in 1..Len(evs) :
        /\ HasId(evs[i]) /\ evs[i]["id"] = k /\ evs[i] = e
        /\ \A j \in (i + 1)..Len(evs) : evs[j]["id"] # k

EmittedFor(k) ==
    {i \in 1..Len(jsonDelta.events) :
        HasId(jsonDelta.events[i]) /\ jsonDelta.events[i]["id"] = k}

EmittedOnce(k, tag, evs) ==
    /\ Cardinality(EmittedFor(k)) = 1
    /\ \A i \in EmittedFor(k) :
          /\ jsonDelta.events[i]["delta_type"] = tag
          /\ \E e \in Range(evs) :
                IsRecordOf(e, evs, k) /\ jsonDelta.events[i] = Tag(e, tag)

SameContentHash(k) ==
    \A o \in Range(oldEvents), n \in Range(newEvents) :
        IsRecordOf(o, oldEvents, k) /\ IsRecordOf(n, newEvents, k)
            => generate_content_hash(o) = generate_content_hash(n)

\* C3: compute_json_delta classifies by id.  With a previous snapshot, an id
\* only in the current snapshot is emitted once, tagged added, with the new
\* record; an id in both with differing content hash once, tagged changed,
\* with the new record; an id only in the previous snapshot once, tagged
\* removed, with the former record; an id in both with equal hash is not
\* emitted.  Without a previous snapshot file every current record is
\* emitted tagged added.
C3_JsonDeltaClassifies ==
    jsonDelta.status = "ok" =>
        IF oldExists
        THEN \A k \in Keys :
               /\ (k \in IdsOf(newEvents) \ IdsOf(oldEvents))
                     => EmittedOnce(k, "added", newEvents)
               /\ (k \in IdsOf(newEvents) \cap IdsOf(oldEvents) /\ ~SameContentHash(k))
                     => EmittedOnce(k, "changed", newEvents)
               /\ (k \in IdsOf(oldEvents) \ IdsOf(newEvents))
                     => EmittedOnce(k, "removed", oldEvents)
               /\ (k \in IdsOf(newEvents) \cap IdsOf(oldEvents) /\ SameContentHash(k))
                     => EmittedFor(k) = {}
               /\ (k \notin IdsOf(newEvents) \cup IdsOf(oldEvents))
                     => EmittedFor(k) = {}
        ELSE /\ Len(jsonDelta.events) = Len(newEvents)
             /\ \A i \in 1..Len(newEvents) :
                   jsonDelta.events[i] = Tag(newEvents[i], "added")

\* a delta holding a changed and a removed record has been computed
C3_Witness ==
    /\ jsonDelta.status = "ok" /\ oldExists
    /\ \E i, j \in 1..Len(jsonDelta.events) :
          /\ jsonDelta.events[i]["delta_type"] = "changed"
          /\ jsonDelta.events[j]["delta_type"] = "removed"

Perms(s) ==
    {[i \in 1..Len(s) |-> s[f[i]]] :
        f \in {g \in [1..Len(s) -> 1..Len(s)] : \A i, j \in 1..Len(s) : g[i] = g[j] => i = j}}

Distinct(s) == \A i, j \in 1..Len(s) : s[i] = s[j] => i = j

HasKeyCols(df, key_cols) == \A i \in 1..Len(key_cols) : key_cols[i] \in Range(df.cols)

\* the key labels of a file's rows, in file order (none when a key column is
\* missing)
KeyLabels(df) == IF HasKeyCols(df, csvKeys) THEN IndexLabels(df, csvKeys) ELSE <<>>

\* the ids of a snapshot's records, in file order (records without id left out)
IdSeq(evs) ==
    LET WithId == SelectSeq(evs, HasId) IN [i \in 1..Len(WithId) |-> WithId[i]["id"]]

SameDelta(r1, r2, field) ==
    /\ r1.status = r2.status
    /\ r1.status = "ok" => Range(r1[field]) = Range(r2[field])

JsonReorderStable ==
    jsonDelta # NotComputed /\ jsonDelta # Unused =>
        \A p \in Perms(oldEvents), q \in Perms(newEvents) :
            SameDelta(compute_json_delta(oldExists, p, q), jsonDelta, "events")

CsvReorderStable ==
    csvDelta # NotComputed /\ csvDelta # Unused =>
        \A p \in Perms(csvOld.rows), q \in Perms(csvNew.rows) :
            SameDelta(compute_csv_delta([csvOld EXCEPT !.rows = p],
                                        [csvNew EXCEPT !.rows = q], csvKeys),
                      csvDelta, "rows")

\* C4 as stated: permuting the records (rows) of the previous and/or of the
\* current snapshot never changes the set of tagged records produced by
\* compute_json_delta or compute_csv_delta.
C4_ReorderStableAnyInput == JsonReorderStable /\ CsvReorderStable

\* C4, amended: the same, for snapshots in which no key occurs twice.
C4_ReorderStableUniqueKeys ==
    /\ (Distinct(IdSeq(oldEvents)) /\ Distinct(IdSeq(newEvents))) => JsonReorderStable
    /\ (Distinct(KeyLabels(csvOld)) /\ Distinct(KeyLabels(csvNew)))
          => CsvReorderStable

\* a delta of two-record snapshots with distinct keys, holding a changed
\* record, has been computed (JSON), and likewise for the CSV delta
C4_Witness ==
    \/ /\ jsonDelta.status = "ok" /\ oldExists
       /\ Len(oldEvents) = 2 /\ Len(newEvents) = 2
       /\ Distinct(IdSeq(oldEvents)) /\ Distinct(IdSeq(newEvents))
       /\ IdSeq(oldEvents) # IdSeq(newEvents)
       /\ \E i \in 1..Len(jsonDelta.events) : jsonDelta.events[i]["delta_type"] = "changed"
    \/ /\ csvDelta.status = "ok"
       /\ Len(csvOld.rows) = 2 /\ Len(csvNew.rows) = 2
       /\ Distinct(KeyLabels(csvOld)) /\ Distinct(KeyLabels(csvNew))
       /\ KeyLabels(csvOld) # KeyLabels(csvNew)
       /\ \E i \in 1..Len(csvDelta.rows) : csvDelta.rows[i]["delta_type"] = "changed"

(***************************************************************************)
(* Vector index.  A point is [id, vector, payload].  Reads (scroll) see    *)
(* `index`; an upsert sent with wait=False is acknowledged at once and     *)
(* applied later (`pending`), one sent with wait=True returns when it and  *)
(* every earlier update have been applied.                                 *)
(***************************************************************************)
\* The ids uuid4() can produce, in the order scroll returns points.
UuidNames == <<"u1", "u2", "u3", "u4", "u5", "u6", "u7", "u8", "u9", "u10">>
UuidRank(u) == CHOOSE i \in 1..Len(UuidNames) : UuidNames[i] = u

PointIds(pts) == {pts[i].id : i \in 1..Len(pts)}

\* upsert: a point replaces the stored point of the same id; within one
\* request the last point of an id stands
ApplyUpsert(idx, pts) ==
    {p \in idx : p.id \notin PointIds(pts)}
    \cup {pts[i] : i \in {j \in 1..Len(pts) : \A k \in (j + 1)..Len(pts) : pts[k].id # pts[j].id}}

RECURSIVE ApplyAll(_, _)
ApplyAll(idx, queue) ==
    IF queue = <<>> THEN idx ELSE ApplyAll(ApplyUpsert(idx, Head(queue)), Tail(queue))

\* delete(points=ids): removes the points whose point id is among ids
ApplyDelete(idx, ids) == {p \in idx : p.id \notin ids}

\* client.scroll(filter: payload id = event_id, limit=1): the matching point
\* of smallest point id, as a sequence of at most one point
Scroll(idx, event_id) ==
    LET hits == {p \in idx : Get(p.payload, "id", "") = event_id}
    IN IF hits = {} THEN <<>>
       ELSE <<CHOOSE p \in hits : \A q \in hits : UuidRank(p.id) <= UuidRank(q.id)>>

(***************************************************************************)
(* Ingestion: what both entry points compute per record                    *)
(***************************************************************************)
BATCH_SIZE == 16

\* event_id of the batch loop: event.get("id") in ingest_events_from_file,
\* str(event.get("id") or event.get("event_id", "")) in the delta handler
EventId(event, kind) ==
    IF kind = "file" \/ Get(event, "id", "") # ""
    THEN Get(event, "id", "")
    ELSE Get(event, "event_id", "")

\* Python None in a numeric field, and in a text field (no text: a text is
\* a sequence of one-character strings)
NoneNum == -1000

NoneText == <<"None">>

Truthy(x) == x # 0 /\ x # NoneNum

\* location payload of ingest_events_from_file: {**loc, **loc_geo}
FileLocation(loc) ==
    IF "latitude" \in DOMAIN loc /\ "longitude" \in DOMAIN loc
       /\ Truthy(loc["latitude"]) /\ Truthy(loc["longitude"])
    THEN [k \in DOMAIN loc \cup {"lat", "lon"} |->
             IF k = "lat" THEN loc["latitude"]
             ELSE IF k = "lon" THEN loc["longitude"] ELSE loc[k]]
    ELSE loc

\* location payload of ingest_ticketsqueeze_delta: loc.copy() plus lat / lon
TsqLocation(loc) ==
    [k \in DOMAIN loc \cup (IF Get(loc, "latitude", NoneNum) # NoneNum THEN {"lat"} ELSE {})
                      \cup (IF Get(loc, "longitude", NoneNum) # NoneNum THEN {"lon"} ELSE {}) |->
        IF k = "lat" THEN loc["latitude"]
        ELSE IF k = "lon" THEN loc["longitude"] ELSE loc[k]]

\* payload = {**event, "location": ..., "hash": chunk_hash}; the delta handler
\* also sets payload["id"] = event_id
Payload(event, kind) ==
    [k \in DOMAIN event \cup {"location", "hash"}
            \cup (IF kind = "file" THEN {} ELSE {"id"}) |->
        IF k = "hash" THEN chunk_hash(event)
        ELSE IF k = "location"
             THEN (IF kind = "file" THEN FileLocation(Get(event, "location", <<>>))
                   ELSE TsqLocation(Get(event, "location", <<>>)))
        ELSE IF k = "id" THEN EventId(event, kind)
        ELSE event[k]]

\* dense and sparse embedding of a text; ingest_events_from_file truncates
\* the dense vector to 384 components and the sparse one to 100
Vector(text, kind) ==
    [dense_vector  |-> [text |-> text, cut |-> IF kind = "file" THEN 384 ELSE 0],
     sparse_vector |-> [text |-> text, cut |-> IF kind = "file" THEN 100 ELSE 0]]

PointStruct(point_id, event, kind) ==
    [id      |-> point_id,
     vector  |-> Vector(normalize_text(Get(event, "description", <<>>)), kind),
     payload |-> Payload(event, kind)]

Batch == SubSeq(active, start + 1,
                IF start + BATCH_SIZE < Len(active) THEN start + BATCH_SIZE ELSE Len(active))

\* the next record of the batch, from position i on, that has an id
\* (records without id are skipped by `continue`)
RECURSIVE NextKeyed(_, _, _)
NextKeyed(batch, i, kind) ==
    IF i > Len(batch) \/ EventId(batch[i], kind) # "" THEN i
    ELSE NextKeyed(batch, i + 1, kind)

(***************************************************************************)
(* Inputs of ingestion                                                     *)
(***************************************************************************)
MaxEvents == 2
MaxRuns == 2

\* uuid4() never runs out: one id more than the runs considered can use (the
\* point of the initial index and one draw per record and run)
Uuids == {UuidNames[i] : i \in 1..(2 + MaxRuns * MaxEvents)}

\* ids uuid4() may return: never an id that exists already, that is the id of
\* a point stored, queued or built, or an id met or drawn earlier (log.taken,
\* carried from run to run), whether or not its point was ever written (of
\* the unused ids the two first are considered)
FreshUuids ==
    LET used   == {p.id : p \in index} \cup UNION {PointIds(pending[i]) : i \in 1..Len(pending)}
                  \cup PointIds(points)
                  \cup (IF log = NotComputed THEN {} ELSE log.taken)
        unused == Uuids \ used
    IN {u \in unused : Cardinality({v \in unused : UuidRank(v) < UuidRank(u)}) < 2}

IngestLocation == [venue |-> "v", latitude |-> 45, longitude |-> 11]

IngestEvent(k, d, tag) ==
    [id |-> k, title |-> <<"t">>, description |-> d, city |-> "c",
     start_date |-> <<"1">>, end_date |-> <<"2">>,
     location |-> IngestLocation, delta_type |-> tag]

\* a record without natural key
NoIdEvent ==
    [title |-> <<"t">>, description |-> <<"a">>, city |-> "c",
     start_date |-> <<"1">>, end_date |-> <<"2">>,
     location |-> IngestLocation, delta_type |-> "added"]

IngestEvents ==
    {IngestEvent("k1", d, tag) : d \in {<<"a">>, <<"b">>}, tag \in {"added", "removed"}}
    \cup {IngestEvent("k1", <<"b">>, "changed")}
    \cup {IngestEvent("k2", <<"a">>, tag) : tag \in {"added", "removed"}}

\* a snapshot, optionally stretched over two batches by records without id
\* placed after its first record
Padding == [i \in 1..(BATCH_SIZE - 1) |-> NoIdEvent]

WithPadding(s, padded) ==
    IF ~padded THEN s
    ELSE IF s = <<>> THEN Padding
    ELSE <<Head(s)>> \o Padding \o Tail(s)

IngestSnapshots ==
    {WithPadding(s, padded) : s \in SeqsUpTo(IngestEvents, MaxEvents), padded \in BOOLEAN}

\* index contents at the start: empty, or one point left by an earlier
\* ingest_events_from_file of a record of key k1
InitIndexes ==
    {{}, {PointStruct("u1", IngestEvent("k1", <<"a">>, "added"), "file")}}

EmptyLog ==
    [index0    |-> index,       \* the index when the run started
     settled   |-> pending = <<>>,
     embedded  |-> {},          \* positions of `active` passed to the embedding models
     skipped   |-> {},          \* positions counted skipped_unchanged
     assigned  |-> {},          \* <<natural key, point id>> chosen for inserts
     taken     |->              \* ids in existence: uuid4() returns none of them
         (IF log = NotComputed THEN {} ELSE log.taken) \cup {p.id : p \in index},
     sent      |-> <<>>,        \* the batches of points the index acknowledged
     completed |-> {},          \* offsets of the batches whose upsert step is over
     failed    |-> FALSE,       \* an upsert failed
     delete_failed |-> FALSE,   \* the delete of PHASE 1 failed
     built     |-> {},          \* offsets of the batches that had points to upsert
     failed_batches |-> {},     \* offsets of the batches whose upsert raised
     fault     |-> "none",      \* the call that raised
     deleted   |-> {}]          \* point ids passed to a delete that succeeded

NoPrev == [status |-> "none"]

IngestInit ==
    /\ index \in InitIndexes /\ pending = <<>>
    /\ pc = "idle" /\ entry = "none" /\ events = <<>> /\ active = <<>>
    /\ start = 0 /\ pos = 0 /\ points = <<>>
    /\ inserted = 0 /\ updated = 0 /\ skipped_unchanged = 0 /\ deleted_count = 0
    /\ result = NotComputed /\ log = NotComputed /\ prev = NoPrev /\ runs = 0

(***************************************************************************)
(* Ingestion: the handlers, step by step                                   *)
(***************************************************************************)
\* the handler returns (or is interrupted): its local variables are gone;
\* the result holds the counts the handler returns and, as status, how the
\* call ended
Return(res) ==
    /\ pc' = "done" /\ result' = res
    /\ active' = <<>> /\ start' = 0 /\ pos' = 0 /\ points' = <<>>
    /\ inserted' = 0 /\ updated' = 0 /\ skipped_unchanged' = 0 /\ deleted_count' = 0

\* BATCH_SIZE = ...; inserted = updated = skipped_unchanged = 0; first batch
EnterLoop(list, ndeleted) ==
    /\ pc' = "embed" /\ active' = list /\ start' = 0 /\ pos' = 0 /\ points' = <<>>
    /\ inserted' = 0 /\ updated' = 0 /\ skipped_unchanged' = 0
    /\ deleted_count' = ndeleted
    /\ UNCHANGED result

\* an exception that leaves the handler: ingest_events_from_file lets it
\* through, ingest_ticketsqueeze_delta's outer except raises HTTPException(500)
Raised(kind) ==
    IF kind = "file" THEN [status |-> "Exception"]
    ELSE [status |-> "HTTPException", code |-> 500]

\* ensure_collection_exists() raises (its embedding call or a client call):
\* the run ends before the first batch, nothing was written
SetupFails(kind, lg) ==
    /\ Return(Raised(kind))
    /\ log' = [lg EXCEPT !.fault = "ensure_collection"]

\* ingest_events_from_file up to `await asyncio.gather(...)` (line 156):
\* load the file, return at once when it has no events, start the geocoding
\* tasks (every record of the inputs carries valid coordinates, so each
\* geocode_event returns without a lookup) and wait for them
BeginFile(S) ==
    /\ events' = S /\ entry' = "file" /\ runs' = runs + 1
    /\ IF S = <<>>
       THEN /\ Return([status |-> "success", inserted |-> 0, updated |-> 0,
                       skipped_unchanged |-> 0, message |-> "No events"])
            /\ log' = EmptyLog
       ELSE /\ pc' = "geocode" /\ log' = EmptyLog
            /\ UNCHANGED <<active, start, pos, points, inserted, updated,
                           skipped_unchanged, deleted_count, result>>
    /\ UNCHANGED indexVars

\* ingest_ticketsqueeze_delta up to `content = await file.read()` (line
\* 331): the handler is suspended while the upload S is read
BeginTsq(S) ==
    /\ events' = S /\ entry' = "tsq" /\ runs' = runs + 1
    /\ pc' = "upload" /\ log' = EmptyLog
    /\ UNCHANGED <<active, start, pos, points, inserted, updated,
                   skipped_unchanged, deleted_count, result>>
    /\ UNCHANGED indexVars

StartFile ==
    /\ UNCHANGED <<deltaVars, hashVars, geoVars, cacheVars, extraVars>>
    /\ pc = "idle"
    /\ \E S \in IngestSnapshots : BeginFile(S)
    /\ prev' = NoPrev

StartTsq ==
    /\ UNCHANGED <<deltaVars, hashVars, geoVars, cacheVars, extraVars>>
    /\ pc = "idle"
    /\ \E S \in IngestSnapshots : BeginTsq(S)
    /\ prev' = NoPrev

\* ingest_ticketsqueeze_delta from the upload read to PHASE 1 (lines
\* 331-357): the file is written and loaded, a file without events is
\* answered at once, ensure_collection_exists() is called
UploadRead ==
    /\ UNCHANGED <<deltaVars, hashVars, geoVars, cacheVars, extraVars>>
    /\ pc = "upload"
    /\ IF events = <<>>
       THEN /\ Return([status |-> "empty", message |-> "No events in file"])
            /\ UNCHANGED log
       ELSE \/ /\ pc' = "delete" /\ UNCHANGED <<result, log>>
               /\ active' = <<>> /\ start' = 0 /\ pos' = 0 /\ points' = <<>>
               /\ inserted' = 0 /\ updated' = 0 /\ skipped_unchanged' = 0
               /\ deleted_count' = 0
            \/ SetupFails("tsq", log)
    /\ UNCHANGED <<indexVars, entry, events, prev, runs>>

\* every task returned: gather returns, the geocoded file is written,
\* ensure_collection_exists() is called and the batch loop starts (lines
\* 156-172)
GatherDone ==
    /\ UNCHANGED <<deltaVars, hashVars, cacheVars, extraVars>>
    /\ pc = "geocode" /\ \A i \in 1..Len(gtask) : gtask[i].st \in {"done", "skipped"}
    /\ \/ EnterLoop(events, 0) /\ UNCHANGED log
       \/ SetupFails("file", log)
    /\ UNCHANGED <<indexVars, geoVars, entry, events, prev, runs>>

\* the same file is ingested again through the same entry point
Rerun ==
    /\ UNCHANGED <<deltaVars, hashVars, geoVars, cacheVars, extraVars>>
    /\ pc = "done" /\ runs < MaxRuns
    /\ IF entry = "file" THEN BeginFile(events) ELSE BeginTsq(events)
    /\ prev' = [status |-> result.status, result |-> result, log |-> log]

HasTag(e, tags) == Get(e, "delta_type", "") \in tags

IsRemoved(e) == HasTag(e, {"removed"})

IsActive(e) == HasTag(e, {"added", "changed"})

\* str(e.get("event_id", e.get("id", "")))
DeleteId(e) == IF "event_id" \in DOMAIN e THEN e["event_id"] ELSE Get(e, "id", "")

HasDeleteId(e) == Get(e, "event_id", "") # "" \/ Get(e, "id", "") # ""

delete_ids ==
    LET removed_events == SelectSeq(events, IsRemoved)
        with_id        == SelectSeq(removed_events, HasDeleteId)
    IN [i \in 1..Len(with_id) |-> DeleteId(with_id[i])]

\* PHASE 2 begins: active_events, and the early return without any
AfterDelete(ndeleted) ==
    LET active_events == SelectSeq(events, IsActive)
    IN IF active_events = <<>>
       THEN Return([status |-> "success", deleted |-> ndeleted, processed |-> 0,
                    message |-> "Only deletions processed"])
       ELSE EnterLoop(active_events, ndeleted)

\* PHASE 1 with no id to delete
DeleteNothing ==
    /\ UNCHANGED <<deltaVars, hashVars, geoVars, cacheVars, extraVars>>
    /\ pc = "delete" /\ delete_ids = <<>>
    /\ AfterDelete(0)
    /\ UNCHANGED <<indexVars, entry, events, log, prev, runs>>

\* PHASE 1: client.delete(points=delete_ids, wait=True) succeeds
DeleteOk ==
    /\ UNCHANGED <<deltaVars, hashVars, geoVars, cacheVars, extraVars>>
    /\ pc = "delete" /\ delete_ids # <<>>
    /\ index' = ApplyDelete(ApplyAll(index, pending), Range(delete_ids))
    /\ pending' = <<>>
    /\ log' = [log EXCEPT !.deleted = Range(delete_ids)]
    /\ AfterDelete(Len(delete_ids))
    /\ UNCHANGED <<entry, events, prev, runs>>

\* PHASE 1: client.delete raises; the handler's except turns it into a 500
DeleteFails ==
    /\ UNCHANGED <<deltaVars, hashVars, geoVars, cacheVars, extraVars>>
    /\ pc = "delete" /\ delete_ids # <<>>
    /\ Return([status |-> "HTTPException", code |-> 500])
    /\ log' = [log EXCEPT !.delete_failed = TRUE]
    /\ UNCHANGED <<indexVars, entry, events, prev, runs>>

\* texts = [normalize_text(...) for ... in batch]; both embedding models
\* embed every text of the batch
EmbedBatch ==
    /\ UNCHANGED <<deltaVars, hashVars, geoVars, cacheVars, extraVars>>
    /\ pc = "embed"
    /\ log' = [log EXCEPT !.embedded = @ \cup {start + i : i \in 1..Len(Batch)}]
    /\ pos' = NextKeyed(Batch, 1, entry)
    /\ pc' = IF NextKeyed(Batch, 1, entry) > Len(Batch) THEN "upsert" ELSE "check"
    /\ UNCHANGED <<indexVars, entry, events, active, start, points, inserted, updated,
                   skipped_unchanged, deleted_count, result, prev, runs>>

\* after the record at pos: on to the next record with an id, or to the upsert
NextRecord ==
    /\ pos' = NextKeyed(Batch, pos + 1, entry)
    /\ pc' = IF NextKeyed(Batch, pos + 1, entry) > Len(Batch) THEN "upsert" ELSE "check"

Existing == Scroll(index, EventId(Batch[pos], entry))

\* CheckSkip with the unchanged record written again under its point's id
CheckSkip_Rewrites ==
    /\ UNCHANGED <<deltaVars, hashVars, geoVars, cacheVars, extraVars>>
    /\ pc = "check"
    /\ Existing # <<>>
    /\ Get(Existing[1].payload, "hash", "") = chunk_hash(Batch[pos])
    /\ skipped_unchanged' = skipped_unchanged + 1
    /\ log' = [log EXCEPT !.skipped = @ \cup {start + pos}]
    /\ points' = Append(points, PointStruct(Existing[1].id, Batch[pos], entry))
    /\ NextRecord
    /\ UNCHANGED <<indexVars, entry, events, active, start, inserted, updated,
                   deleted_count, result, prev, runs>>

\* existing point with the same hash
CheckSkip ==
    /\ UNCHANGED <<deltaVars, hashVars, geoVars, cacheVars, extraVars>>
    /\ pc = "check"
    /\ Existing # <<>>
    /\ Get(Existing[1].payload, "hash", "") = chunk_hash(Batch[pos])
    /\ skipped_unchanged' = skipped_unchanged + 1
    /\ log' = [log EXCEPT !.skipped = @ \cup {start + pos}]
    /\ NextRecord
    /\ UNCHANGED <<indexVars, entry, events, active, start, points, inserted, updated,
                   deleted_count, result, prev, runs>>

\* CheckUpdate with the changed record stored under a new id
CheckUpdate_FreshId ==
    /\ UNCHANGED <<deltaVars, hashVars, geoVars, cacheVars, extraVars>>
    /\ pc = "check"
    /\ Existing # <<>>
    /\ Get(Existing[1].payload, "hash", "") # chunk_hash(Batch[pos])
    /\ updated' = updated + 1
    /\ \E u \in FreshUuids :
          /\ points' = Append(points, PointStruct(u, Batch[pos], entry))
          /\ log' = [log EXCEPT !.taken = @ \cup {u}]
    /\ NextRecord
    /\ UNCHANGED <<indexVars, entry, events, active, start, inserted,
                   skipped_unchanged, deleted_count, result, prev, runs>>

\* existing point with another hash: point_id_to_use = existing_point.id
CheckUpdate ==
    /\ UNCHANGED <<deltaVars, hashVars, geoVars, cacheVars, extraVars>>
    /\ pc = "check"
    /\ Existing # <<>>
    /\ Get(Existing[1].payload, "hash", "") # chunk_hash(Batch[pos])
    /\ updated' = updated + 1
    /\ points' = Append(points, PointStruct(Existing[1].id, Batch[pos], entry))
    /\ NextRecord
    /\ UNCHANGED <<indexVars, entry, events, active, start, inserted,
                   skipped_unchanged, deleted_count, result, log, prev, runs>>

\* no existing point: point_id_to_use = str(uuid4())
CheckInsert ==
    /\ UNCHANGED <<deltaVars, hashVars, geoVars, cacheVars, extraVars>>
    /\ pc = "check"
    /\ Existing = <<>>
    /\ \E u \in FreshUuids :
          /\ points' = Append(points, PointStruct(u, Batch[pos], entry))
          /\ log' = [log EXCEPT !.assigned = @ \cup {<<EventId(Batch[pos], entry), u>>},
                                 !.taken = @ \cup {u}]
    /\ inserted' = inserted + 1
    /\ NextRecord
    /\ UNCHANGED <<indexVars, entry, events, active, start, updated,
                   skipped_unchanged, deleted_count, result, prev, runs>>

\* the `for start in range(0, len(...), BATCH_SIZE)` loop moves on
NextBatch ==
    /\ points' = <<>> /\ pos' = 0
    /\ IF start + BATCH_SIZE < Len(active)
       THEN pc' = "embed" /\ start' = start + BATCH_SIZE
       ELSE pc' = "finish" /\ start' = start
    /\ UNCHANGED <<entry, events, active, inserted, updated, skipped_unchanged,
                   deleted_count, result, prev, runs>>

\* `if points:` is false
UpsertNothing ==
    /\ UNCHANGED <<deltaVars, hashVars, geoVars, cacheVars, extraVars>>
    /\ pc = "upsert" /\ points = <<>>
    /\ log' = [log EXCEPT !.completed = @ \cup {start}]
    /\ NextBatch
    /\ UNCHANGED indexVars

\* client.upsert(points, wait=False) in ingest_events_from_file
FileUpsert(pts) ==
    /\ pending' = Append(pending, pts)
    /\ index' = index

\* client.upsert(points, wait=True) in ingest_ticketsqueeze_delta
TsqUpsert(pts) ==
    /\ index' = ApplyUpsert(ApplyAll(index, pending), pts)
    /\ pending' = <<>>

UpsertOk ==
    /\ UNCHANGED <<deltaVars, hashVars, geoVars, cacheVars, extraVars>>
    /\ pc = "upsert" /\ points # <<>>
    /\ IF entry = "file" THEN FileUpsert(points) ELSE TsqUpsert(points)
    /\ log' = [log EXCEPT !.completed = @ \cup {start}, !.sent = Append(@, points),
                           !.built = @ \cup {start}]
    /\ NextBatch

\* UpsertFails with the exception leaving the handler
UpsertFails_Abort ==
    /\ UNCHANGED <<deltaVars, hashVars, geoVars, cacheVars, extraVars>>
    /\ pc = "upsert" /\ points # <<>>
    /\ log' = [log EXCEPT !.failed = TRUE, !.built = @ \cup {start},
                           !.failed_batches = @ \cup {start}]
    /\ Return(Raised(entry))
    /\ UNCHANGED <<indexVars, entry, events, prev, runs>>

\* client.upsert raises: logged, the loop goes on
UpsertFails ==
    /\ UNCHANGED <<deltaVars, hashVars, geoVars, cacheVars, extraVars>>
    /\ pc = "upsert" /\ points # <<>>
    /\ log' = [log EXCEPT !.failed = TRUE, !.built = @ \cup {start},
                           !.failed_batches = @ \cup {start}]
    /\ NextBatch
    /\ UNCHANGED indexVars

\* passage_embed of the dense or the sparse model raises: no try / except
\* around it in the batch loop
EmbedFails ==
    /\ UNCHANGED <<deltaVars, hashVars, geoVars, cacheVars, extraVars>>
    /\ pc = "embed"
    /\ log' = [log EXCEPT !.fault = "embedding"]
    /\ Return(Raised(entry))
    /\ UNCHANGED <<indexVars, entry, events, prev, runs>>

\* client.scroll raises: no try / except around it in the record loop
ScrollFails ==
    /\ UNCHANGED <<deltaVars, hashVars, geoVars, cacheVars, extraVars>>
    /\ pc = "check"
    /\ log' = [log EXCEPT !.fault = "lookup"]
    /\ Return(Raised(entry))
    /\ UNCHANGED <<indexVars, entry, events, prev, runs>>

\* after the loop: get_collection and the returned counts
Finish ==
    /\ UNCHANGED <<deltaVars, hashVars, geoVars, cacheVars, extraVars>>
    /\ pc = "finish"
    /\ Return(IF entry = "file"
              THEN [status |-> "success", inserted |-> inserted, updated |-> updated,
                    skipped_unchanged |-> skipped_unchanged]
              ELSE [status |-> "success", deleted |-> deleted_count,
                    inserted |-> inserted, updated |-> updated,
                    skipped_unchanged |-> skipped_unchanged,
                    total_processed |-> Len(active)])
    /\ UNCHANGED <<indexVars, entry, events, log, prev, runs>>

\* after the loop: client.get_collection raises; nothing catches it in
\* ingest_events_from_file, ingest_ticketsqueeze_delta's outer except raises
\* HTTPException(500); the batches already upserted stay
FinishFails ==
    /\ UNCHANGED <<deltaVars, hashVars, geoVars, cacheVars, extraVars>>
    /\ pc = "finish"
    /\ log' = [log EXCEPT !.fault = "collection_info"]
    /\ Return(Raised(entry))
    /\ UNCHANGED <<indexVars, entry, events, prev, runs>>

\* the run is interrupted (process killed, request cancelled)
Interrupt ==
    /\ UNCHANGED <<deltaVars, hashVars, geoVars, cacheVars, extraVars>>
    /\ pc \in {"upload", "geocode", "delete", "embed", "check", "upsert", "finish"}
    /\ Return([status |-> "interrupted"])
    /\ UNCHANGED <<indexVars, entry, events, log, prev, runs>>

\* the index applies the oldest acknowledged upsert
ApplyPending ==
    /\ UNCHANGED <<deltaVars, hashVars, geoVars, cacheVars, extraVars>>
    /\ pending # <<>>
    /\ index' = ApplyUpsert(index, Head(pending))
    /\ pending' = Tail(pending)
    /\ UNCHANGED runVars

Next ==
    \/ StartFile \/ StartTsq \/ Rerun \/ UploadRead \/ GatherDone
    \/ DeleteNothing \/ DeleteOk \/ DeleteFails
    \/ EmbedBatch \/ CheckSkip \/ CheckUpdate \/ CheckInsert
    \/ UpsertNothing \/ UpsertOk \/ UpsertFails
    \/ EmbedFails \/ ScrollFails
    \/ Finish \/ FinishFails \/ Interrupt \/ ApplyPending

Init == IngestInit /\ DeltaIdle /\ HashIdle /\ GeoIdle /\ CacheIdle /\ ExtraIdle

Spec == Init /\ [][Next]_vars

(***************************************************************************)
(* Claims about ingestion                                                  *)
(***************************************************************************)
Started == pc # "idle"

Finished == pc = "done" /\ result.status = "success"

\* the records the batch loop of an entry point goes through
ActiveOf(evs, kind) == IF kind = "file" THEN evs ELSE SelectSeq(evs, IsActive)

KeyedPositions(evs, kind) ==
    {i \in 1..Len(ActiveOf(evs, kind)) : EventId(ActiveOf(evs, kind)[i], kind) # ""}

PointsOfKey(idx, k) == {p \in idx : Get(p.payload, "id", "") = k}

PrevFinished == prev.status = "success"

\* C1: idempotence of ingestion.  When a run over a snapshot finished (with
\* no failed upsert) and the same snapshot is ingested again through the same
\* entry point, the second run reports inserted = 0 and updated = 0, counts
\* every record that has a natural key as skipped_unchanged and sends no
\* point to the index.
C1_ReingestIsIdempotent ==
    (Finished /\ PrevFinished /\ ~prev.log.failed)
    => /\ Get(result, "inserted", 0) = 0
       /\ Get(result, "updated", 0) = 0
       /\ Get(result, "skipped_unchanged", 0) = Cardinality(KeyedPositions(events, entry))
       /\ log.sent = <<>>

SentIds == UNION {PointIds(log.sent[i]) : i \in 1..Len(log.sent)}

\* C2: restart convergence, its durability part.  At every moment of a run
\* (so also when it is interrupted) the points of every batch whose upsert
\* completed are stored in the index.
C2_CompletedBatchesDurable ==
    Started => \A u \in SentIds : \E p \in index : p.id = u

PrevAssigned == IF prev.status = "none" THEN {} ELSE prev.log.assigned

\* C6: the point id is a function of the natural key.  Two runs that each
\* insert a record of the same natural key (into an index that does not
\* show a point of that key) assign it the same point id.
C6_PointIdFunctionOfKey ==
    Started => \A a \in log.assigned : \A b \in PrevAssigned :
                  a[1] = b[1] => a[2] = b[2]

\* C7: a content change reuses the physical id.  A record whose natural key
\* has a point in the index with another stored hash is built under the id
\* of that point; whenever the index stores a point under an id it already
\* held, the point formerly under that id is gone and was a point of the
\* same natural key; and once the point is replaced no point of that natural
\* key with the old content remains in the index.
C7_BuiltUnderExistingId ==
    (pc = "check" /\ Len(points') = Len(points) + 1 /\ Existing # <<>>)
    => points'[Len(points')].id = Existing[1].id

C7_ReplacedInPlace ==
    /\ \A p \in index' \ index : \A q \in index :
          q.id = p.id => /\ q \notin index'
                         /\ Get(q.payload, "id", "") = Get(p.payload, "id", "")
    /\ \A p \in index' : \A q \in index' : p.id = q.id => p = q

C7_NoOrphan ==
    \A p \in index' \ index : \A q \in index :
        (q.id = p.id /\ Get(q.payload, "hash", "") # Get(p.payload, "hash", ""))
        => \A r \in index' :
              Get(r.payload, "id", "") = Get(p.payload, "id", "")
              => Get(r.payload, "hash", "") # Get(q.payload, "hash", "")

C7_ContentChangeReusesId ==
    [][C7_BuiltUnderExistingId /\ C7_ReplacedInPlace /\ C7_NoOrphan]_vars

\* a run finished that updated a record, and the index holds, under the id of
\* a point it held when the run started, a point with another hash
C7_Witness ==
    /\ Finished /\ Get(result, "updated", 0) >= 1 /\ pending = <<>>
    /\ \E q \in log.index0 : \E p \in index :
          /\ p.id = q.id
          /\ Get(p.payload, "hash", "") # Get(q.payload, "hash", "")
          /\ Get(p.payload, "id", "") = Get(q.payload, "id", "")

RemovedKeys(evs) ==
    {Get(evs[i], "id", "") : i \in {j \in 1..Len(evs) : IsRemoved(evs[j])}} \ {""}

ActiveKeys(evs) ==
    {Get(evs[i], "id", "") : i \in {j \in 1..Len(evs) : IsActive(evs[j])}} \ {""}

\* C8: a record tagged removed is deleted and never upserted.  After a
\* finished run (every write applied) the index holds no point of a natural
\* key that the input tags removed (and does not also tag added or changed),
\* and no point of such a key was sent to the index.
C8_RemovedAreDeleted ==
    (Finished /\ pending = <<>>)
    => \A k \in RemovedKeys(events) \ ActiveKeys(events) :
          /\ PointsOfKey(index, k) = {}
          /\ \A i \in 1..Len(log.sent) : \A j \in 1..Len(log.sent[i]) :
                Get(log.sent[i][j].payload, "id", "") # k

\* C9: a failed delete is not fatal.  When the delete of the removed
\* records failed, the input also has added or changed records and the
\* handler has returned, it returned the counts of the run, not an error,
\* and the added and changed records were processed.
C9_DeleteFailureNotFatal ==
    (pc = "done" /\ entry = "tsq" /\ log.delete_failed /\ ActiveKeys(events) # {}
     /\ result.status # "interrupted")
    => /\ result.status = "success"
       /\ \A i \in KeyedPositions(events, entry) : i \in log.embedded

\* C10: unchanged records are never embedded.  No record counted
\* skipped_unchanged was passed to the embedding models.
C10_UnchangedNotEmbedded ==
    Started => log.skipped \cap log.embedded = {}

BatchOffsets(evs, kind) ==
    {b \in 0..(Len(ActiveOf(evs, kind)) - 1) : b % BATCH_SIZE = 0}

StoredOrQueuedIds ==
    {p.id : p \in index} \cup UNION {PointIds(pending[i]) : i \in 1..Len(pending)}

\* offset of the batch that holds position i of the records gone through
BatchOf(i) == ((i - 1) \div BATCH_SIZE) * BATCH_SIZE

\* the positions of the records with a natural key that the run found new or
\* changed, in batches whose upsert did not raise
DueForWrite ==
    {i \in KeyedPositions(events, entry) :
        i \notin log.skipped /\ BatchOf(i) \notin log.failed_batches}

\* the index holds (stored, or acknowledged and queued) a point with the
\* payload of record i
WrittenAs(i) ==
    \E p \in ApplyAll(index, pending) :
        p.payload = Payload(ActiveOf(events, entry)[i], entry)

\* C11: partial-failure isolation of upserts.  When the upsert of a batch
\* raised (and nothing else did) and the handler has returned, it returned
\* its counts, the upsert step of every batch was reached, every other batch
\* that had points was sent to the index, and every new or changed record of
\* the other batches is in the index (stored, or acknowledged and queued):
\* the index holds a point with its payload, or with the payload of a later
\* record of the same natural key written over it.
C11_UpsertFailureIsolated ==
    (pc = "done" /\ result.status # "interrupted" /\ log.failed_batches # {}
     /\ ~log.delete_failed /\ log.fault = "none")
    => /\ result.status = "success"
       /\ log.completed \cup log.failed_batches = BatchOffsets(events, entry)
       /\ Len(log.sent) = Cardinality(log.built \ log.failed_batches)
       /\ SentIds \subseteq StoredOrQueuedIds
       /\ \A i \in DueForWrite :
             \E j \in DueForWrite :
                /\ j >= i
                /\ EventId(ActiveOf(events, entry)[j], entry)
                      = EventId(ActiveOf(events, entry)[i], entry)
                /\ WrittenAs(j)

\* a run of two batches returned: the upsert of one raised, the other batch
\* was sent
C11_Witness ==
    /\ Finished /\ log.failed_batches # {}
    /\ log.built \ log.failed_batches # {}
    /\ log.sent # <<>>
    /\ DueForWrite # {}

\* C12: a failure of embedding generation or of the existence lookup aborts
\* only its batch.  When such a call raised and the handler has returned,
\* the run completed: it returned its counts and the upsert step of every
\* batch was reached.
C12_BatchFaultIsolated ==
    (pc = "done" /\ result.status # "interrupted" /\ log.fault \in {"embedding", "lookup"})
    => /\ result.status = "success"
       /\ log.completed \cup log.failed_batches = BatchOffsets(events, entry)

(***************************************************************************)
(* The geocoding phase of ingest_events_from_file                          *)
(***************************************************************************)
SEMAPHORE == 5

\* the four parameter sets async_geocode_structured tries in turn
params_list == <<"street,city,state", "city,state", "street,city", "street,state">>

is_valid_lat_lon(lat, lon) ==
    /\ lat # NoneNum /\ lon # NoneNum
    /\ -90 <= lat /\ lat <= 90 /\ -180 <= lon /\ lon <= 180

DictSet(d, k, v) == [x \in DOMAIN d \cup {k} |-> IF x = k THEN v ELSE d[x]]

\* event["location"]["latitude"] = lat; event["location"]["longitude"] = lon
SetCoords(event, lat, lon) ==
    DictSet(event, "location",
            DictSet(DictSet(event["location"], "latitude", lat), "longitude", lon))

\* what geocode_event does with a record before it can suspend:
\*   "valid"  - returns at once, the record carries a valid coordinate pair
\*   "raises" - .strip() of a None venue / city (AttributeError), or the
\*              assignment into a missing event["location"] (KeyError)
\*   "lookup" - venue and city present: goes for the semaphore
\*   "none"   - nothing to geocode: latitude = longitude = None
GeoClass(event) ==
    LET loc   == Get(event, "location", <<>>)
        lat   == Get(loc, "latitude", NoneNum)
        lon   == Get(loc, "longitude", NoneNum)
        venue == Get(loc, "venue", <<>>)
        city  == Get(event, "city", <<>>)
    IN IF lat # NoneNum /\ lon # NoneNum /\ is_valid_lat_lon(lat, lon) THEN "valid"
       ELSE IF venue = NoneText \/ city = NoneText THEN "raises"
       ELSE IF strip(venue) # <<>> /\ strip(city) # <<>> THEN "lookup"
       ELSE IF "location" \in DOMAIN event THEN "none"
       ELSE "raises"

\* asyncio.Semaphore.acquire() with every task acquiring
CanAcquire_Always(value) == TRUE

\* asyncio.Semaphore.acquire() goes through without waiting
CanAcquire(value) == value > 0

Task(st, attempt, left) == [st |-> st, attempt |-> attempt, left |-> left]

GeoStart(evs) ==
    [events |-> evs, gtask |-> <<>>, sem |-> SEMAPHORE, waiters |-> <<>>,
     acquired |-> {}, requests |-> 0]

\* asyncio.gather: the tasks take their first step one after the other, in
\* the order of the records, before any response is handled
RECURSIVE StartTasks(_, _)
StartTasks(g, i) ==
    IF i > Len(g.events) THEN g
    ELSE LET c == GeoClass(g.events[i])
         IN StartTasks(
              IF c = "valid" THEN [g EXCEPT !.gtask = Append(@, Task("skipped", 0, 0))]
              ELSE IF c = "raises" THEN [g EXCEPT !.gtask = Append(@, Task("raised", 0, 0))]
              ELSE IF c = "none"
                   THEN [g EXCEPT !.gtask = Append(@, Task("done", 0, 0)),
                                  !.events[i] = SetCoords(@, NoneNum, NoneNum)]
              ELSE IF CanAcquire(g.sem)
                   THEN [g EXCEPT !.gtask = Append(@, Task("request", 1, 0)),
                                  !.sem = @ - 1,
                                  !.acquired = @ \cup {i},
                                  !.requests = @ + 1]
              ELSE [g EXCEPT !.gtask = Append(@, Task("waiting", 0, 0)),
                             !.waiters = Append(@, i)],
              i + 1)

(***************************************************************************)
(* Inputs of the geocoding phase                                           *)
(***************************************************************************)
MaxGeoEvents == 2

GeoEvent(k, venue, lat, lon) ==
    [id |-> k, title |-> <<"t">>, description |-> <<"a">>, city |-> <<"c">>,
     start_date |-> <<"1">>, end_date |-> <<"2">>,
     location |-> [venue |-> venue, latitude |-> lat, longitude |-> lon]]

GeoEvents ==
    {GeoEvent("k1", <<"w">>, NoneNum, NoneNum),    \* to geocode, answer open
     GeoEvent("k2", <<"v">>, 45, 11),              \* valid coordinate pair
     GeoEvent("k1", <<"v">>, 0, 11),               \* valid pair on the equator
     GeoEvent("k2", <<" ">>, 95, 11),              \* latitude out of range, blank venue
     GeoEvent("k2", NoneText, NoneNum, NoneNum)}   \* "venue": null

\* records without natural key whose venue the provider resolves at the
\* first request: as many as the semaphore admits
GeoPadding ==
    [i \in 1..SEMAPHORE |->
        [title |-> <<"t">>, description |-> <<"a">>, city |-> <<"c">>,
         start_date |-> <<"1">>, end_date |-> <<"2">>,
         location |-> [venue |-> <<"v">>, latitude |-> NoneNum, longitude |-> NoneNum]]]

GeoSnapshots ==
    {(IF padded THEN GeoPadding ELSE <<>>) \o s :
        s \in SeqsUpTo(GeoEvents, MaxGeoEvents), padded \in BOOLEAN} \ {<<>>}

\* what a request for a record can come back with: the JSON list with a
\* hit, an empty list, or httpx.HTTPError / ValueError
Outcomes(event) ==
    IF event["location"]["venue"] = <<"v">> THEN {"data"} ELSE {"data", "empty", "error"}

\* the coordinates the provider answers with
ProviderLat == 46

ProviderLon == 12

GeoInit ==
    /\ IngestInit /\ index = {}
    /\ gtask = <<>> /\ sem = SEMAPHORE /\ waiters = <<>> /\ sinceReq = -1
    /\ glog = NotComputed

(***************************************************************************)
(* The geocoding phase, step by step                                       *)
(***************************************************************************)
InProgress == {i \in 1..Len(gtask) : gtask[i].st \in {"request", "sleeping"}}

ValidAtStart(evs) == {i \in 1..Len(evs) : GeoClass(evs[i]) = "valid"}

\* ingest_events_from_file up to asyncio.gather, whose tasks take their
\* first step
GeoStartFile ==
    /\ UNCHANGED <<deltaVars, hashVars, cacheVars, extraVars>>
    /\ pc = "idle"
    /\ \E S \in GeoSnapshots :
          LET g == StartTasks(GeoStart(S), 1)
          IN /\ events' = g.events /\ gtask' = g.gtask /\ sem' = g.sem
             /\ waiters' = g.waiters
             /\ sinceReq' = IF g.requests > 0 THEN 0 ELSE -1
             /\ glog' = [valid0    |-> ValidAtStart(S),
                         acquired  |-> g.acquired,
                         called    |-> g.acquired,
                         undelayed |-> g.requests >= 2]
    /\ pc' = "geocode" /\ entry' = "file" /\ runs' = runs + 1
    /\ log' = EmptyLog /\ prev' = NoPrev
    /\ UNCHANGED <<indexVars, active, start, pos, points, inserted, updated,
                   skipped_unchanged, deleted_count, result>>

GeoRunUnchanged ==
    UNCHANGED <<indexVars, pc, entry, active, start, pos, points, inserted, updated,
                skipped_unchanged, deleted_count, result, log, prev, runs>>

\* the tasks of asyncio.gather run while the handler waits for them and,
\* gather cancelling nothing when one of them raised, after the handler was
\* left with that exception
TasksLive ==
    \/ pc = "geocode"
    \/ /\ pc = "done"
       /\ \E i \in 1..Len(gtask) : gtask[i].st \in {"request", "sleeping", "waiting"}

\* the response to the request of task i arrives
Respond(i) ==
    /\ UNCHANGED <<deltaVars, hashVars, cacheVars, extraVars>>
    /\ TasksLive /\ i \in 1..Len(gtask) /\ gtask[i].st = "request"
    /\ \E o \in Outcomes(events[i]) :
          IF o = "data"
          THEN /\ gtask' = [gtask EXCEPT ![i] = Task("done", @.attempt, 0)]
               /\ events' = [events EXCEPT ![i] = SetCoords(@, ProviderLat, ProviderLon)]
               /\ sem' = sem + 1
          ELSE /\ gtask' = [gtask EXCEPT ![i] = Task("sleeping", @.attempt, 1)]
               /\ UNCHANGED <<events, sem>>
    /\ UNCHANGED <<waiters, sinceReq, glog>>
    /\ GeoRunUnchanged

\* the time of one asyncio.sleep(1) passes
GeoTick ==
    /\ UNCHANGED <<deltaVars, hashVars, cacheVars, extraVars>>
    /\ TasksLive
    /\ sinceReq = 0 \/ \E i \in 1..Len(gtask) : gtask[i].st = "sleeping" /\ gtask[i].left > 0
    /\ sinceReq' = IF sinceReq = 0 THEN 1 ELSE sinceReq
    /\ gtask' = [i \in 1..Len(gtask) |->
                    IF gtask[i].st = "sleeping" THEN Task("sleeping", gtask[i].attempt, 0)
                    ELSE gtask[i]]
    /\ UNCHANGED <<events, sem, waiters, glog>>
    /\ GeoRunUnchanged

\* an outbound request is issued
Issue(i) ==
    /\ sinceReq' = 0
    /\ glog' = [glog EXCEPT !.undelayed = @ \/ sinceReq = 0, !.called = @ \cup {i}]

\* task i wakes from its sleep and sends the next request
WakeRetry(i) ==
    /\ UNCHANGED <<deltaVars, hashVars, cacheVars, extraVars>>
    /\ TasksLive /\ i \in 1..Len(gtask)
    /\ gtask[i].st = "sleeping" /\ gtask[i].left = 0
    /\ gtask[i].attempt < Len(params_list)
    /\ gtask' = [gtask EXCEPT ![i] = Task("request", @.attempt + 1, 0)]
    /\ Issue(i)
    /\ UNCHANGED <<events, sem, waiters>>
    /\ GeoRunUnchanged

\* task i wakes after the last parameter set: async_geocode_structured
\* returns None
WakeGiveUp(i) ==
    /\ UNCHANGED <<deltaVars, hashVars, cacheVars, extraVars>>
    /\ TasksLive /\ i \in 1..Len(gtask)
    /\ gtask[i].st = "sleeping" /\ gtask[i].left = 0
    /\ gtask[i].attempt = Len(params_list)
    /\ gtask' = [gtask EXCEPT ![i] = Task("done", @.attempt, 0)]
    /\ events' = [events EXCEPT ![i] = SetCoords(@, NoneNum, NoneNum)]
    /\ sem' = sem + 1
    /\ UNCHANGED <<waiters, sinceReq, glog>>
    /\ GeoRunUnchanged

\* the first waiter gets the semaphore and sends its first request
Acquire ==
    /\ UNCHANGED <<deltaVars, hashVars, cacheVars, extraVars>>
    /\ TasksLive /\ waiters # <<>> /\ CanAcquire(sem)
    /\ gtask' = [gtask EXCEPT ![Head(waiters)] = Task("request", 1, 0)]
    /\ sem' = sem - 1 /\ waiters' = Tail(waiters)
    /\ sinceReq' = 0
    /\ glog' = [glog EXCEPT !.undelayed = @ \/ sinceReq = 0,
                            !.called = @ \cup {Head(waiters)},
                            !.acquired = @ \cup {Head(waiters)}]
    /\ UNCHANGED events
    /\ GeoRunUnchanged

\* a task raised: gather passes the exception on and the handler is left
GatherRaises ==
    /\ UNCHANGED <<deltaVars, hashVars, cacheVars, extraVars>>
    /\ pc = "geocode" /\ \E i \in 1..Len(gtask) : gtask[i].st = "raised"
    /\ Return(Raised("file"))
    /\ UNCHANGED <<indexVars, geoVars, entry, events, log, prev, runs>>

SpecGeoInit == GeoInit /\ DeltaIdle /\ HashIdle /\ CacheIdle /\ ExtraIdle

SpecGeoNext ==
    \/ GeoStartFile
    \/ \E i \in 1..(SEMAPHORE + MaxGeoEvents) : Respond(i)
    \/ GeoTick
    \/ \E i \in 1..(SEMAPHORE + MaxGeoEvents) : WakeRetry(i)
    \/ \E i \in 1..(SEMAPHORE + MaxGeoEvents) : WakeGiveUp(i)
    \/ Acquire \/ GatherRaises \/ GatherDone
    \/ EmbedBatch \/ CheckInsert \/ UpsertNothing \/ UpsertOk \/ Finish \/ FinishFails
    \/ ApplyPending

SpecGeo == SpecGeoInit /\ [][SpecGeoNext]_vars

(***************************************************************************)
(* Claims about the geocoding phase                                        *)
(***************************************************************************)
SentPoints == UNION {Range(log.sent[i]) : i \in 1..Len(log.sent)}

\* C13: geocoding failure degrades to 'no coordinates'.  When the handler
\* has returned, it returned its counts, every record that carries no valid
\* coordinate pair (no result, failed lookup, nothing to geocode) has
\* latitude and longitude None, and every record with a natural key, these
\* included, was embedded and sent to the index with the payload of the
\* record.
C13_GeocodeFailureDegrades ==
    (pc = "done" /\ log.fault = "none")
    => /\ result.status = "success"
       /\ \A i \in 1..Len(events) :
             LET loc == events[i]["location"]
             IN \/ is_valid_lat_lon(loc["latitude"], loc["longitude"])
                \/ loc["latitude"] = NoneNum /\ loc["longitude"] = NoneNum
       /\ \A i \in KeyedPositions(events, "file") :
             /\ i \in log.embedded
             /\ \E p \in SentPoints : p.payload = Payload(events[i], "file")

\* C14: bounded geocoding concurrency.  At every moment at most SEMAPHORE
\* lookups are in progress, and a record that carried a valid coordinate
\* pair never acquired the semaphore and sent no request.
C14_BoundedGeocoding ==
    pc # "idle"
    => /\ Cardinality(InProgress) <= SEMAPHORE
       /\ glog.valid0 \cap (glog.acquired \cup glog.called) = {}

\* the gate is full, a task waits for it, and the run has a record with a
\* valid coordinate pair
C14_Witness ==
    /\ pc = "geocode"
    /\ Cardinality(InProgress) = SEMAPHORE /\ waiters # <<>>
    /\ glog.valid0 # {}

\* C15: mandatory delay between outbound requests.  No request to the
\* geocoding provider is issued less than one sleep after the request
\* before it.
C15_RequestsDelayed ==
    pc # "idle" => ~glog.undelayed

(***************************************************************************)
(* The lookup cache of openroute_service: tables and cleanup_cache         *)
(*                                                                         *)
(* A table is a set of row groups [key, n, others, value, expires,         *)
(* created]: a row of a key that calls look up has n = 1; the rows of all  *)
(* other keys, written at the same moment, form one group marked `others`  *)
(* that stands for n rows (at most one such group per table).              *)
(***************************************************************************)
CACHE_TTL == 90 * 86400

MAX_CACHE_SIZE == 20000

\* int(time.time()) with the clock counting whole seconds
Now == clock

RECURSIVE SumN(_)
SumN(rows) ==
    IF rows = {} THEN 0
    ELSE LET r == CHOOSE x \in rows : TRUE IN r.n + SumN(rows \ {r})

\* WHERE expires >= ?
Fresh_Inclusive(row, now) == row.expires >= now

\* WHERE expires > ?
Fresh(row, now) == row.expires > now

\* SELECT ... WHERE <hash>=? AND expires > ?  .fetchone()
Select(table, key, now) == {r \in table : ~r.others /\ r.key = key /\ Fresh(r, now)}

\* DELETE ... ORDER BY created DESC LIMIT ?: the youngest rows go
OldestFirst_Youngest(removed, kept) ==
    \A r \in removed : \A k \in kept : r.created >= k.created

\* ORDER BY created ASC LIMIT ?: no row goes while an older one stays
OldestFirst(removed, kept) ==
    \A r \in removed : \A k \in kept : r.created <= k.created

\* DELETE ... WHERE <hash> IN (SELECT ... ORDER BY created ASC LIMIT excess):
\* every table the statement can leave (rows of equal `created` go in any
\* order)
Evictions(live, excess) ==
    LET single == {r \in live : ~r.others}
        bulk   == {r \in live : r.others}
        nbulk  == SumN(bulk)
    IN {(single \ E) \cup {[b EXCEPT !.n = nbulk - (excess - Cardinality(E))] :
                              b \in {x \in bulk : nbulk - (excess - Cardinality(E)) > 0}} :
           E \in {X \in SUBSET single :
                    /\ excess - Cardinality(X) >= 0
                    /\ excess - Cardinality(X) <= nbulk
                    /\ OldestFirst(X \cup (IF excess - Cardinality(X) > 0 THEN bulk ELSE {}),
                                   (single \ X)
                                   \cup (IF nbulk - (excess - Cardinality(X)) > 0
                                         THEN bulk ELSE {}))}}

\* cleanup_cache(table) at time now: the tables it can leave
cleanup_cache(table, now) ==
    LET live == {r \in table : r.expires > now}
        size == SumN(live)
    IN IF size >= MAX_CACHE_SIZE
       THEN Evictions(live, IF size - MAX_CACHE_SIZE \div 2 > 0
                            THEN size - MAX_CACHE_SIZE \div 2 ELSE 0)
       ELSE {live}

\* INSERT OR REPLACE: expires from the `now` the call read at its start,
\* created = strftime('%s','now') at the insert
InsertOrReplace(table, key, value, expires, created) ==
    {r \in table : r.others \/ r.key # key}
    \cup {[key |-> key, n |-> 1, others |-> FALSE, value |-> value,
           expires |-> expires, created |-> created]}

(***************************************************************************)
(* geocode_address and get_route, step by step                             *)
(***************************************************************************)
\* str.lower() on the alphabet of the addresses below
LowerChar(c) == IF c = "A" THEN "a" ELSE c

lower(t) == [i \in 1..Len(t) |-> LowerChar(t[i])]

\* hashlib.md5(...).hexdigest(): distinct inputs give distinct digests
md5(text) == [md5 |-> text]

\* the addresses callers pass: two spellings of one place, another place,
\* and one that is too short
Addresses ==
    { <<"a", "b", "c">>, <<" ", "A", "b", "c">>, <<"x", "y", "z">>, <<" ", "a", "b">> }

DefaultProfile == "driving-car"

DefaultRadiuses == <<1000, 1000>>

\* the coordinate lists callers pass: two routes and a list of one point
RouteCoords ==
    { << <<11, 45>>, <<12, 46>> >>, << <<11, 45>>, <<13, 47>> >>, << <<11, 45>> >> }

route_hash(coords, profile, radiuses) == md5(<<coords, profile, radiuses>>)

\* what photon_geocode returns: a (lon, lat) pair, one of them on the
\* meridian, or None (no features, or any exception)
NoCoords == <<NoneNum, NoneNum>>

PhotonResults == { <<12, 45>>, <<0, 45>>, NoCoords }

\* what pelias_search gives: features with coordinates, none, or an exception
OrsResults == { [features |-> <<[lon |-> 0, lat |-> 0]>>],
                [features |-> <<>>],
                [raises |-> "ApiError"] }

\* a JSON null
Null == [null |-> TRUE]

\* what ors_client.directions gives: a route, a collection without the
\* features key, with no feature, with a feature without geometry, with a
\* feature whose geometry is null, or an exception
DirectionsResults ==
    { [features |-> <<[geometry |-> [coordinates |-> <<1, 2, 3>>]]>>],
      [type |-> "FeatureCollection"],
      [features |-> <<>>],
      [features |-> <<[type |-> "Feature"]>>],
      [features |-> <<[geometry |-> Null]>>],
      [raises |-> "ApiError"] }

\* the validation of lines 234-236
ValidGeoJson(route_data) ==
    ~ ( \/ "features" \notin DOMAIN route_data
        \/ route_data.features = <<>>
        \/ "geometry" \notin DOMAIN route_data.features[1] )

\* len(route_data['features'][0]['geometry']['coordinates']) can be taken
HasPtsCount(route_data) ==
    "coordinates" \in DOMAIN route_data.features[1].geometry

\* `if lon:` in place of `if lon is None:`
IsMissing_Falsy(lon) == ~Truthy(lon)

\* lon is None
IsMissing(lon) == lon = NoneNum

TableOf(fn) == IF fn = "geocode_address" THEN geocode_cache ELSE route_cache

\* the moments after the first at which something happens: the next second,
\* and the seconds at which what was stored in the first seconds expires
Times == {2, CACHE_TTL, CACHE_TTL + 1}

MaxCalls == 2

NoCall == [pc |-> "idle"]

\* the row a table can hold for a key that calls look up
Row(key, value, now, created) ==
    [key |-> key, n |-> 1, others |-> FALSE, value |-> value,
     expires |-> now + CACHE_TTL, created |-> created]

\* the rows of the other keys, written in second 1
Bulk(count, value) ==
    [key |-> md5(<<>>), n |-> count, others |-> TRUE, value |-> value,
     expires |-> 1 + CACHE_TTL, created |-> 1]

\* what is known of the last write of each key: the second the writing call
\* read at its start, the second of the write, the value, and whether
\* cleanup_cache has since evicted the row for room
Entry(key, value, now, at) ==
    [key |-> key, value |-> value, now |-> now, at |-> at, evicted |-> FALSE]

AbcKey == md5(<<"a", "b", "c">>)

Route1Key == route_hash(<< <<11, 45>>, <<12, 46>> >>, DefaultProfile, DefaultRadiuses)

Route1 == [features |-> <<[geometry |-> [coordinates |-> <<1, 2, 3>>]]>>]

\* the tables at the start: empty, or at the ceiling with one looked-up key
\* older than the rest ("full") or as old as the rest ("tied")
Preloads == {"empty", "full", "tied"}

PreGeocode(pre) ==
    IF pre = "empty" THEN {}
    ELSE {Row(AbcKey, <<12, 45>>, IF pre = "full" THEN 0 ELSE 1, IF pre = "full" THEN 0 ELSE 1),
          Bulk(MAX_CACHE_SIZE - 1, <<0, 0>>)}

PreRoute(pre) ==
    IF pre = "empty" THEN {}
    ELSE {Row(Route1Key, Route1, IF pre = "full" THEN 0 ELSE 1, IF pre = "full" THEN 0 ELSE 1),
          Bulk(MAX_CACHE_SIZE - 1, Null)}

Known(table) ==
    {Entry(r.key, r.value, r.expires - CACHE_TTL, r.created) : r \in {x \in table : ~x.others}}

CacheInit ==
    /\ clock = 1
    /\ \E pre \in Preloads :
         /\ geocode_cache = PreGeocode(pre)
         /\ route_cache = PreRoute(pre)
    /\ call = NoCall
    /\ clog = [geocode_address |-> Known(geocode_cache), get_route |-> Known(route_cache),
               calls |-> 0, evictions |-> 0, cleanups |-> 0]

OtherIdle == UNCHANGED <<deltaVars, hashVars, ingestVars, geoVars, extraVars>>

\* time passes
CacheTick ==
    /\ \E t \in Times : t > clock /\ clock' = t
    /\ UNCHANGED <<geocode_cache, route_cache, call, clog>>
    /\ OtherIdle

\* the call record at the start of a call
Begin(fn, arg, key) ==
    [fn |-> fn, pc |-> "read", arg |-> arg, key |-> key, now |-> Now,
     hit |-> FALSE, cleaned |-> FALSE, wrote |-> FALSE, store_error |-> "none",
     trace |-> <<>>, res |-> NoCoords, lon |-> NoneNum, lat |-> NoneNum,
     route_data |-> Null, conn |-> "closed", tx |-> <<>>, clean_now |-> 0,
     prior |-> {e \in clog[fn] : e.key = key},
     result |-> NotComputed]

Ended(c, res) == [c EXCEPT !.pc = "done", !.result = res]

ValueError(msg) == [status |-> "ValueError", message |-> msg]

Returned(value) == [status |-> "returned", value |-> value]

\* geocode_address(address), lines 152-156
CallGeocode ==
    /\ call.pc \in {"idle", "done"} /\ clog.calls < MaxCalls
    /\ \E address \in Addresses :
         LET a == strip(address) IN
         call' = IF Len(a) < 3
                 THEN Ended(Begin("geocode_address", a, md5(lower(a))),
                            ValueError("Address too short"))
                 ELSE Begin("geocode_address", a, md5(lower(a)))
    /\ clog' = [clog EXCEPT !.calls = @ + 1]
    /\ UNCHANGED <<clock, geocode_cache, route_cache>>
    /\ OtherIdle

\* get_route(coords), lines 202-211
CallRoute ==
    /\ call.pc \in {"idle", "done"} /\ clog.calls < MaxCalls
    /\ \E coords \in RouteCoords :
         LET k == route_hash(coords, DefaultProfile, DefaultRadiuses) IN
         call' = IF Len(coords) # 2
                 THEN Ended(Begin("get_route", coords, k),
                            ValueError("Exactly 2 coordinates [[lon,lat],[lon,lat]] required for route"))
                 ELSE Begin("get_route", coords, k)
    /\ clog' = [clog EXCEPT !.calls = @ + 1]
    /\ UNCHANGED <<clock, geocode_cache, route_cache>>
    /\ OtherIdle

\* sqlite3.connect at the head of a `with get_db_connection()` block (line
\* 88); cleanup_cache reads the clock just before (line 100)
Connect ==
    /\ call.pc \in {"read", "cleanup", "write"} /\ call.conn = "closed"
    /\ call' = [call EXCEPT !.conn = "open", !.tx = Append(@, "open"),
                            !.clean_now = IF call.pc = "cleanup" THEN Now ELSE @]
    /\ UNCHANGED <<clock, geocode_cache, route_cache, clog>>
    /\ OtherIdle

\* an exit that closes only after a commit
Release_LeakOnError(c, how) ==
    IF how = "commit"
    THEN [c EXCEPT !.conn = "closed", !.tx = Append(Append(@, how), "close")]
    ELSE [c EXCEPT !.tx = Append(@, how)]

\* leaving the with block, lines 91-96: commit, or rollback on an exception,
\* and close in either case
Release(c, how) ==
    [c EXCEPT !.conn = "closed", !.tx = Append(Append(@, how), "close")]

\* the SELECT of lines 158-165 and 213-220
ReadCache ==
    /\ call.pc = "read" /\ call.conn = "open"
    /\ LET found == Select(TableOf(call.fn), call.key, call.now) IN
       call' = IF found # {}
               THEN LET r == CHOOSE x \in found : TRUE IN
                    Ended(Release([call EXCEPT !.hit = TRUE], "commit"), Returned(r.value))
               ELSE Release([call EXCEPT !.pc = "cleanup"], "commit")
    /\ UNCHANGED <<clock, geocode_cache, route_cache, clog>>
    /\ OtherIdle

\* what the caller gets when a statement on the store raises: the error
\* itself, except from the INSERT of get_route, which sits inside its try
StoreError(c) ==
    IF c.fn = "get_route" /\ c.pc = "write"
    THEN ValueError("Routing failed: sqlite3 error")
    ELSE [status |-> "sqlite3.Error"]

\* get_db_connection, lines 85-96: sqlite3.connect raises, or a statement
\* raises, the transaction is rolled back and the exception raised again
StoreFails ==
    /\ call.pc \in {"read", "cleanup", "write"}
    /\ call' = Ended(IF call.conn = "open"
                     THEN Release([call EXCEPT !.store_error = call.pc], "rollback")
                     ELSE [call EXCEPT !.store_error = call.pc],
                     StoreError(call))
    /\ UNCHANGED <<clock, geocode_cache, route_cache, clog>>
    /\ OtherIdle

\* the entries of the rows that cleanup_cache removed although unexpired
MarkEvicted(entries, table, left, now) ==
    {IF \E r \in table : /\ ~r.others /\ r.key = e.key /\ r.expires > now
                          /\ ~(\E l \in left : ~l.others /\ l.key = e.key)
     THEN [e EXCEPT !.evicted = TRUE] ELSE e : e \in entries}

\* cleanup_cache(table), lines 167 and 222
Cleanup ==
    /\ call.pc = "cleanup" /\ call.conn = "open"
    /\ \E left \in cleanup_cache(TableOf(call.fn), call.clean_now) :
         /\ IF call.fn = "geocode_address"
            THEN geocode_cache' = left /\ UNCHANGED route_cache
            ELSE route_cache' = left /\ UNCHANGED geocode_cache
         /\ clog' = [clog EXCEPT ![call.fn] = MarkEvicted(@, TableOf(call.fn), left,
                                                          call.clean_now),
                                 !.cleanups = 1,
                                 !.evictions =
                                    IF SumN({r \in TableOf(call.fn) : r.expires > call.clean_now})
                                          > SumN(left) THEN 1 ELSE @]
    /\ call' = Release([call EXCEPT !.cleaned = TRUE,
                                    !.pc = IF call.fn = "geocode_address" THEN "photon"
                                           ELSE "directions"], "commit")
    /\ UNCHANGED clock
    /\ OtherIdle

\* lines 170-175
AfterPhoton(c, res) ==
    LET lonlat == IF res # NoCoords THEN res ELSE NoCoords
        c1 == [c EXCEPT !.trace = Append(@, "photon"), !.res = res,
                        !.lon = lonlat[1], !.lat = lonlat[2]]
    IN [c1 EXCEPT !.pc = IF IsMissing(c1.lon) THEN "ors" ELSE "write"]

Photon ==
    /\ call.pc = "photon"
    /\ \E res \in PhotonResults : call' = AfterPhoton(call, res)
    /\ UNCHANGED <<clock, geocode_cache, route_cache, clog>>
    /\ OtherIdle

\* lines 176-186
AfterOrs(c, res) ==
    LET c1 == [c EXCEPT !.trace = Append(@, "ors")] IN
    IF "features" \in DOMAIN res /\ res.features # <<>>
    THEN [c1 EXCEPT !.lon = res.features[1].lon, !.lat = res.features[1].lat,
                    !.pc = "write"]
    ELSE IF "raises" \in DOMAIN res
         THEN Ended(c1, ValueError("Geocoding failed: ApiError"))
         ELSE Ended(c1, ValueError("Geocoding failed: No geocoding results"))

Ors ==
    /\ call.pc = "ors"
    /\ \E res \in OrsResults : call' = AfterOrs(call, res)
    /\ UNCHANGED <<clock, geocode_cache, route_cache, clog>>
    /\ OtherIdle

\* lines 226-237
Directions ==
    /\ call.pc = "directions"
    /\ \E res \in DirectionsResults :
         LET c1 == [call EXCEPT !.trace = Append(@, "directions")] IN
         call' = IF "raises" \in DOMAIN res
                 THEN Ended(c1, ValueError("Routing failed: ApiError"))
                 ELSE IF ~ValidGeoJson(res)
                 THEN Ended(c1, ValueError("Routing failed: Invalid GeoJSON route response"))
                 ELSE [c1 EXCEPT !.route_data = res, !.pc = "write"]
    /\ UNCHANGED <<clock, geocode_cache, route_cache, clog>>
    /\ OtherIdle

Remember(entries, key, value, now, at) ==
    {e \in entries : e.key # key} \cup {Entry(key, value, now, at)}

\* lines 189-197
WriteGeocode ==
    /\ call.pc = "write" /\ call.fn = "geocode_address" /\ call.conn = "open"
    /\ geocode_cache' = InsertOrReplace(geocode_cache, call.key, <<call.lon, call.lat>>,
                                        call.now + CACHE_TTL, Now)
    /\ call' = Ended(Release([call EXCEPT !.wrote = TRUE], "commit"),
                     Returned(<<call.lon, call.lat>>))
    /\ clog' = [clog EXCEPT !.geocode_address =
                   Remember(@, call.key, <<call.lon, call.lat>>, call.now, Now)]
    /\ UNCHANGED <<clock, route_cache>>
    /\ OtherIdle

\* lines 239-256
WriteRoute ==
    /\ call.pc = "write" /\ call.fn = "get_route" /\ call.conn = "open"
    /\ route_cache' = InsertOrReplace(route_cache, call.key, call.route_data,
                                      call.now + CACHE_TTL, Now)
    /\ call' = Ended(Release([call EXCEPT !.wrote = TRUE], "commit"),
                     IF HasPtsCount(call.route_data)
                     THEN Returned(call.route_data)
                     ELSE ValueError("Routing failed: TypeError"))
    /\ clog' = [clog EXCEPT !.get_route =
                   Remember(@, call.key, call.route_data, call.now, Now)]
    /\ UNCHANGED <<clock, geocode_cache>>
    /\ OtherIdle

SpecCacheInit == CacheInit /\ DeltaIdle /\ HashIdle /\ IngestIdle /\ GeoIdle /\ ExtraIdle

SpecCacheNext ==
    \/ CacheTick
    \/ CallGeocode
    \/ CallRoute
    \/ Connect
    \/ ReadCache
    \/ StoreFails
    \/ Cleanup
    \/ Photon
    \/ Ors
    \/ Directions
    \/ WriteGeocode
    \/ WriteRoute

SpecCache == SpecCacheInit /\ [][SpecCacheNext]_vars

(***************************************************************************)
(* The cache: claims                                                       *)
(***************************************************************************)
\* the call was refused before it looked anything up
Rejected(c) ==
    /\ c.pc = "done" /\ c.result.status = "ValueError"
    /\ c.result.message \in {"Address too short", "Exactly 2 coordinates [[lon,lat],[lon,lat]] required for route"}

\* the call has got past its SELECT, or the SELECT raised
PastRead(c) == c.pc \notin {"idle", "read"} /\ ~Rejected(c)

\* C16 as stated: an entry stored with time-to-live CACHE_TTL is returned
\* from the cache, without a provider call, by every lookup of its key made
\* before CACHE_TTL has elapsed since it was stored, and every lookup made
\* once CACHE_TTL has elapsed is a miss (lookups whose SELECT raised are
\* left aside)
C16_TtlFromStore ==
    (PastRead(call) /\ call.store_error # "read")
    => \A e \in call.prior :
          /\ call.now < e.at + CACHE_TTL => call.hit /\ call.trace = <<>>
          /\ call.now >= e.at + CACHE_TTL => ~call.hit

\* C16 amended: the time-to-live runs from the second the writing call read
\* at its start.  As long as cleanup_cache has not evicted the row for room,
\* a lookup of the key that starts before that second plus CACHE_TTL calls
\* no provider and, unless its SELECT raises, returns the stored value; a
\* lookup that starts at that second plus CACHE_TTL or later is never
\* answered from the cache
C16_TtlFromCallStart ==
    PastRead(call)
    => \A e \in call.prior :
          /\ (call.now < e.now + CACHE_TTL /\ ~e.evicted)
             => /\ call.trace = <<>>
                /\ \/ call.store_error = "read"
                   \/ call.hit /\ call.result = Returned(e.value)
          /\ call.now >= e.now + CACHE_TTL => ~call.hit

\* a lookup in the last second of an entry's life is answered from the cache
C16_Witness ==
    /\ call.pc = "done" /\ ~Rejected(call) /\ call.hit
    /\ \E e \in call.prior : call.now = e.now + CACHE_TTL - 1

\* C17: negative results are never cached: a lookup that ends in an error
\* (no result from any provider, a failed route request, an invalid route
\* response) has written no row for its key, and every row of a looked-up
\* key holds coordinates, or a route whose points can be counted
C17_NegativeNeverCached ==
    /\ (call.pc = "done" /\ ~Rejected(call) /\ call.result.status # "returned")
       => ~call.wrote
    /\ \A r \in geocode_cache : ~IsMissing(r.value[1]) /\ ~IsMissing(r.value[2])
    /\ \A r \in route_cache : ~r.others => ValidGeoJson(r.value) /\ HasPtsCount(r.value)

\* how many of the rows of group r the table `left` still holds
KeptOf(r, left) ==
    SumN({l \in left : l.others = r.others /\ (r.others \/ l.key = r.key)})

\* what cleanup_cache must have done to `table` at second `now`
PolicyKept(table, left, now) ==
    LET live == {r \in table : r.expires > now} IN
    /\ \A l \in left : l.expires > now
    /\ \A l \in left : \E r \in live : KeptOf(r, {l}) = l.n /\ l.n <= r.n
    /\ SumN(live) < MAX_CACHE_SIZE => left = live
    /\ SumN(live) >= MAX_CACHE_SIZE
       => /\ 2 * SumN(left) = MAX_CACHE_SIZE
          /\ \A young, old \in live :
                (KeptOf(young, left) < young.n /\ KeptOf(old, left) > 0)
                => young.created <= old.created

\* C18: every write of a cache row is preceded in the same call by
\* cleanup_cache on that table; cleanup_cache deletes every row with
\* expires <= now and, only if the survivors have reached MAX_CACHE_SIZE,
\* deletes the oldest-created of them so that exactly MAX_CACHE_SIZE/2
\* survive; below the ceiling no unexpired row is deleted, and no row is
\* evicted while an older unexpired row is kept
C18_EvictionPolicy ==
    [][ /\ (call.pc = "write" /\ call'.wrote) => call.cleaned
        /\ (call.pc = "cleanup" /\ call'.cleaned)
           => IF call.fn = "geocode_address"
              THEN PolicyKept(geocode_cache, geocode_cache', call.clean_now)
              ELSE PolicyKept(route_cache, route_cache', call.clean_now) ]_vars

\* a call has evicted rows from a table at the ceiling and written its own
C18_Witness ==
    /\ call.pc = "done" /\ call.wrote /\ clog.evictions = 1
    /\ SumN(TableOf(call.fn)) = MAX_CACHE_SIZE \div 2 + 1

\* C19: on a cache miss geocode_address asks Photon first and ORS only when
\* Photon gave no result; when both give none it raises an error that says
\* so; it never returns a null coordinate; a result with a coordinate equal
\* to 0 is not taken for a missing one: ORS is not asked, and unless a
\* statement on the store raises the result is returned and cached
C19_FallbackChain ==
    (call.pc # "idle" /\ call.fn = "geocode_address" /\ ~Rejected(call))
    => /\ call.trace \in {<<>>, <<"photon">>, <<"photon", "ors">>}
       /\ call.hit => call.trace = <<>>
       /\ call.pc \in {"photon", "ors", "write"} => ~call.hit
       /\ call.pc = "ors" => call.trace = <<"photon">> /\ call.res = NoCoords
       /\ call.trace = <<"photon", "ors">> => call.res = NoCoords
       /\ (call.pc \in {"write", "done"} /\ call.trace = <<"photon">>)
          => /\ call.res # NoCoords
             /\ call.lon = call.res[1] /\ call.lat = call.res[2]
       /\ (call.pc = "done" /\ call.result.status = "returned")
          => /\ ~IsMissing(call.result.value[1]) /\ ~IsMissing(call.result.value[2])
             /\ call.hit \/ call.result.value = <<call.lon, call.lat>>
       /\ (call.pc = "done" /\ call.store_error = "none" /\ ~call.hit)
          => IF call.wrote
             THEN /\ call.result = Returned(<<call.lon, call.lat>>)
                  /\ \E r \in geocode_cache :
                        ~r.others /\ r.key = call.key /\ r.value = <<call.lon, call.lat>>
             ELSE /\ call.trace = <<"photon", "ors">>
                  /\ call.result \in {ValueError("Geocoding failed: No geocoding results"),
                                      ValueError("Geocoding failed: ApiError")}

\* Photon answered with a point on the meridian; it was returned and cached
C19_Witness ==
    /\ call.pc = "done" /\ call.fn = "geocode_address" /\ ~Rejected(call)
    /\ call.trace = <<"photon">> /\ call.res = <<0, 45>>
    /\ call.result = Returned(<<0, 45>>)
    /\ \E r \in geocode_cache : ~r.others /\ r.key = call.key /\ r.value = <<0, 45>>

\* C20: when a statement on the cache store raises while geocode_address or
\* get_route reads, cleans or writes, the call still asks the provider and
\* returns what the provider gave
C20_StoreErrorsFallBack ==
    (call.pc = "done" /\ ~Rejected(call) /\ call.store_error # "none")
    => /\ call.trace # <<>>
       /\ call.result.status = "returned"

\* the connections of a call, each opened, then committed or rolled back,
\* then closed
RECURSIVE WellBracketed(_)
WellBracketed(tx) ==
    \/ tx = <<>>
    \/ /\ Len(tx) >= 3
       /\ tx[1] = "open" /\ tx[2] \in {"commit", "rollback"} /\ tx[3] = "close"
       /\ WellBracketed(SubSeq(tx, 4, Len(tx)))

\* C21: while a call of geocode_address or get_route has a provider request
\* in flight it holds no open connection to the cache store; every
\* connection opened through get_db_connection is closed on every exit
\* path, after a commit on success and after a rollback on an exception
C21_NoConnectionAcrossNetwork ==
    (call.pc # "idle")
    => /\ call.pc \in {"photon", "ors", "directions"} => call.conn = "closed"
       /\ call.conn = "closed" => WellBracketed(call.tx)
       /\ call.pc = "done"
          => /\ call.conn = "closed"
             /\ \A i \in 1..Len(call.tx) :
                   call.tx[i] = "rollback"
                   => i = Len(call.tx) - 1 /\ call.store_error # "none"
             /\ (call.store_error # "none" /\ call.tx # <<>>
                 /\ call.tx[Len(call.tx) - 1] = "commit")
                => Len(call.tx) = 3 * (IF call.store_error = "read" THEN 0
                                       ELSE IF call.store_error = "cleanup" THEN 1 ELSE 2)

\* a call whose INSERT raised after the provider had answered: three
\* connections, the last one rolled back and closed
C21_Witness ==
    /\ call.pc = "done" /\ call.store_error = "write"
    /\ call.tx = <<"open", "commit", "close", "open", "commit", "close",
                   "open", "rollback", "close">>

(***************************************************************************)
(* /create_map: request validation, filters, hybrid query, re-ordering      *)
(*                                                                         *)
(* Coordinates are points <<lon, lat>> of an integer grid, one unit one    *)
(* kilometre; distances are compared by their squares.  Routes run along   *)
(* the axis lat = 0 towards growing lon.  Datetimes are day numbers.  A    *)
(* similarity score is an integer number of hundredths.                    *)
(***************************************************************************)
\* a field left out of the JSON body
Absent == <<"absent">>

\* RouteRequest, schemas.py lines 8-15: the value a field takes
Field(body, name, default) == IF name \in DOMAIN body THEN body[name] ELSE default

DefaultNumevents == 100

\* the model after pydantic filled in the defaults
Parsed(body) ==
    [origin_address      |-> body.origin_address,
     destination_address |-> Field(body, "destination_address", NoneText),
     buffer_distance     |-> body.buffer_distance,
     startinputdate      |-> body.startinputdate,
     endinputdate        |-> body.endinputdate,
     query_text          |-> Field(body, "query_text", <<>>),
     numevents           |-> Field(body, "numevents", DefaultNumevents),
     profile_choice      |-> Field(body, "profile_choice", "driving-car")]

\* a validator that looks at the window only
ValidationErrors_WindowOnly(r) ==
    IF r.startinputdate >= r.endinputdate
    THEN {"startinputdate must be before endinputdate"} ELSE {}

\* Field(..., gt=0) and validate_mode_logic: the validation errors of a body.
\* The mode='after' validator, which holds the window check, runs only when
\* every field passed its own validation.
ValidationErrors(r) ==
    IF r.buffer_distance <= 0 THEN {"buffer_distance: greater_than 0"}
    ELSE IF r.startinputdate >= r.endinputdate
         THEN {"startinputdate must be before endinputdate"}
         ELSE {}

\* `if request.destination_address:`
HasDestination(r) == r.destination_address # NoneText /\ r.destination_address # <<>>

Sq(x) == x * x

Clamp(x, lo, hi) == IF x < lo THEN lo ELSE IF x > hi THEN hi ELSE x

\* base_geometry: Point(origin) or LineString(route_coords)
PointGeometry(pt) == [kind |-> "Point", coords |-> <<pt>>]

LineGeometry(coords) == [kind |-> "LineString", coords |-> coords]

\* the point of the geometry nearest to pt
Nearest(geometry, pt) ==
    LET c == geometry.coords IN
    <<Clamp(pt[1], c[1][1], c[Len(c)][1]), c[1][2]>>

\* squared distance from pt to the geometry
Dist2(geometry, pt) ==
    Sq(pt[1] - Nearest(geometry, pt)[1]) + Sq(pt[2] - Nearest(geometry, pt)[2])

\* base_geometry.project(event_pt): distance along the line to the nearest point
project(geometry, pt) == Nearest(geometry, pt)[1] - geometry.coords[1][1]

\* gdf_3857.buffer(buffer_distance_meters): the buffer polygon, kept as the
\* geometry and the distance it was built from
Buffer(geometry, km) == [around |-> geometry, km |-> km]

\* Qdrant geo_polygon: the point lies inside the exterior ring
InPolygon(polygon, pt) == Dist2(polygon.around, pt) <= Sq(polygon.km)

\* qmodels.DatetimeRange with the bounds that are not given left None
DatetimeRange(lte, gte) == [lte |-> lte, gte |-> gte]

build_geo_filter(polygon) ==
    [must |-> << [key |-> "location", geo_polygon |-> polygon,
                  range |-> DatetimeRange(NoneNum, NoneNum)] >>]

\* a window filter that asks for containment: start >= windowStart and
\* end <= windowEnd
build_date_intersection_filter_Containment(start_date, end_date) ==
    [must |-> << [key |-> "start_date", geo_polygon |-> Null,
                  range |-> DatetimeRange(NoneNum, start_date)],
                 [key |-> "end_date", geo_polygon |-> Null,
                  range |-> DatetimeRange(end_date, NoneNum)] >>]

build_date_intersection_filter(start_date, end_date) ==
    [must |-> << [key |-> "start_date", geo_polygon |-> Null,
                  range |-> DatetimeRange(end_date, NoneNum)],
                 [key |-> "end_date", geo_polygon |-> Null,
                  range |-> DatetimeRange(NoneNum, start_date)] >>]

build_final_filter(geo_filter, date_filter) ==
    [must |-> geo_filter.must \o date_filter.must]

\* Qdrant: a FieldCondition holds of a payload that has the field with a
\* value meeting the condition
HasGeoPoint(payload) ==
    /\ "location" \in DOMAIN payload
    /\ "lon" \in DOMAIN payload.location /\ "lat" \in DOMAIN payload.location

ConditionHolds(cond, payload) ==
    IF cond.key = "location"
    THEN /\ HasGeoPoint(payload)
         /\ InPolygon(cond.geo_polygon, <<payload.location.lon, payload.location.lat>>)
    ELSE /\ cond.key \in DOMAIN payload
         /\ cond.range.lte # NoneNum => payload[cond.key] <= cond.range.lte
         /\ cond.range.gte # NoneNum => payload[cond.key] >= cond.range.gte

\* Qdrant Filter(must=[...]): every condition holds
Matches(filter, payload) ==
    \A i \in 1..Len(filter.must) : ConditionHolds(filter.must[i], payload)

PREFETCH_LIMIT == 50

\* the best k of a set of points under one of their scores
TopK(cands, score, k) ==
    {S \in SUBSET cands :
        /\ Cardinality(S) = (IF Cardinality(cands) < k THEN Cardinality(cands) ELSE k)
        /\ \A inside \in S : \A outside \in cands \ S : inside[score] >= outside[score]}

\* the Prefetch of lines 41-49: the points that share a term with the query
SparsePools(filter, pts) ==
    TopK({p \in pts : Matches(filter, p.payload) /\ p.sparse > 0}, "sparse", PREFETCH_LIMIT)

\* the Prefetch of lines 50-55, with its score_threshold
DensePools(filter, pts, score_threshold) ==
    TopK({p \in pts : Matches(filter, p.payload) /\ p.dense >= score_threshold},
         "dense", PREFETCH_LIMIT)

\* every arrangement of a set as a sequence
Arrangements(S) ==
    {q \in [1..Cardinality(S) -> S] : \A i, j \in 1..Cardinality(S) : q[i] = q[j] => i = j}

\* query_points(... FusionQuery(RRF), limit): the fused candidates in the
\* order of their fused rank, which is left open, cut at limit (None: the
\* default of the client, 10)
Fused(sparse, dense, limit) ==
    {SubSeq(q, 1, IF Len(q) < (IF limit = NoneNum THEN 10 ELSE limit) THEN Len(q)
                  ELSE (IF limit = NoneNum THEN 10 ELSE limit)) :
        q \in Arrangements(sparse \cup dense)}

\* query_events_hybrid: what it asks of the index
HybridQuery(filter, limit, score_threshold) ==
    [sparse |-> [limit |-> PREFETCH_LIMIT, score_threshold |-> NoneNum],
     dense  |-> [limit |-> PREFETCH_LIMIT, score_threshold |-> score_threshold],
     fusion |-> [score_threshold |-> NoneNum],
     query_filter |-> filter, limit |-> limit]

\* query_events_hybrid: the payloads it can return
query_events_hybrid(pts, q) ==
    UNION { UNION { { [i \in 1..Len(f) |-> f[i].payload] : f \in Fused(sp, de, q.limit) } :
                      de \in DensePools(q.query_filter, pts, q.dense.score_threshold) } :
              sp \in SparsePools(q.query_filter, pts) }

FLOOR == 34

\* the floor whatever the text
ScoreThreshold_Always(query_text) == FLOOR

\* line 126
ScoreThreshold(query_text) == IF strip(query_text) = <<>> THEN 0 ELSE FLOOR

\* sorted(payloads, key=...) is stable: insertion into the sorted prefix
\* after the entries whose key is not larger
RECURSIVE InsertSorted(_, _, _)
InsertSorted(sorted, e, k) ==
    IF sorted = <<>> THEN <<[event |-> e, key |-> k]>>
    ELSE IF Head(sorted).key <= k
         THEN <<Head(sorted)>> \o InsertSorted(Tail(sorted), e, k)
         ELSE <<[event |-> e, key |-> k]>> \o sorted

\* distance_logic in point mode for an event of a route request
distance_logic_Radial(r, base, origin, event) ==
    LET pt == <<event.location.lon, event.location.lat>> IN
    Dist2(PointGeometry(origin), pt)

\* distance_logic, lines 141-148
distance_logic(r, base, origin, event) ==
    LET pt == <<event.location.lon, event.location.lat>> IN
    IF HasDestination(r) THEN project(base, pt) ELSE Dist2(PointGeometry(origin), pt)

RECURSIVE SortedBy(_, _, _, _)
SortedBy(payloads, r, base, origin) ==
    IF payloads = <<>> THEN <<>>
    ELSE InsertSorted(SortedBy(SubSeq(payloads, 1, Len(payloads) - 1), r, base, origin),
                      payloads[Len(payloads)],
                      distance_logic(r, base, origin, payloads[Len(payloads)]))

\* numevents left out of the body
AbsentNum == -2000

\* the bodies posted: what a body carries for each optional field
Body(origin, dest, buf, win, text, num) ==
    [k \in {"origin_address", "buffer_distance", "startinputdate", "endinputdate"}
           \cup (IF dest = Absent THEN {} ELSE {"destination_address"})
           \cup (IF text = Absent THEN {} ELSE {"query_text"})
           \cup (IF num = AbsentNum THEN {} ELSE {"numevents"}) |->
        CASE k = "origin_address" -> origin
          [] k = "buffer_distance" -> buf
          [] k = "startinputdate" -> win[1]
          [] k = "endinputdate" -> win[2]
          [] k = "destination_address" -> dest
          [] k = "query_text" -> text
          [] k = "numevents" -> num]

MaxNumevents == 2

Destinations == {Absent, NoneText, <<>>, <<"B">>, <<"A">>}

Texts == {Absent, NoneText, <<>>, <<" ">>, <<"m">>}

Bodies ==
    { Body(<<"A">>, dest, 6, <<2, 3>>, text, num) :
        dest \in Destinations, text \in Texts,
        num \in {AbsentNum, NoneNum} \cup 1..MaxNumevents }
    \cup { Body(<<"A">>, dest, buf, win, <<>>, 1) :
             dest \in {Absent, <<"B">>}, buf \in {-1, 0, 6},
             win \in {<<2, 3>>, <<3, 3>>, <<3, 2>>} }
    \cup { Body(<<"?">>, Absent, 6, <<2, 3>>, <<>>, 1) }

\* where geocode_address puts the addresses; "?" cannot be resolved
Places == [a \in {<<"A">>, <<"B">>} |-> IF a = <<"A">> THEN <<0, 0>> ELSE <<10, 0>>]

\* a point of the collection
Indexed(id, location, start_date, end_date, dense, sparse) ==
    [id |-> id,
     payload |-> [id |-> id, location |-> location,
                  start_date |-> start_date, end_date |-> end_date],
     dense |-> dense, sparse |-> sparse]

At(lon, lat) == [lon |-> lon, lat |-> lat, address |-> "x"]

EventPool ==
    { Indexed("a", At(4, 0), 2, 3, 50, 1),
      Indexed("b", At(2, 5), 1, 2, 20, 1),
      Indexed("c", At(9, 0), 3, 4, 20, 0),
      Indexed("d", At(4, 0), 1, 1, 50, 1),
      Indexed("e", At(5, 9), 2, 3, 50, 1),
      Indexed("f", [address |-> "x"], 2, 3, 50, 1) }

MaxCollection == 3

Collections == {S \in SUBSET EventPool : Cardinality(S) <= MaxCollection}

NoFilter == [must |-> <<>>]

QueryInit ==
    /\ request \in Bodies
    /\ collection \in Collections
    /\ query = [pc |-> "received", calls |-> <<>>, r |-> Parsed(request),
                origin |-> <<0, 0>>, route_coords |-> <<>>,
                base |-> PointGeometry(<<0, 0>>),
                polygon |-> Buffer(PointGeometry(<<0, 0>>), 0),
                geo_filter |-> NoFilter, date_filter |-> NoFilter,
                final_filter |-> NoFilter,
                asked |-> HybridQuery(NoFilter, 0, 0),
                payloads |-> <<>>, response |-> NotComputed]

QueryOthers ==
    UNCHANGED <<deltaVars, hashVars, ingestVars, geoVars, cacheVars, sweep, norm, workers,
                request, collection>>

Responded(q, status, body) ==
    [q EXCEPT !.pc = "done", !.response = [status |-> status, body |-> body]]

\* FastAPI validates the body against RouteRequest before the handler runs
ValidateRequest ==
    /\ query.pc = "received"
    /\ query' = IF ValidationErrors(query.r) # {}
                THEN Responded(query, 422, ValidationErrors(query.r))
                ELSE [query EXCEPT !.pc = "origin"]
    /\ QueryOthers

\* lines 81-82
GeocodeOrigin ==
    /\ query.pc = "origin"
    /\ LET q1 == [query EXCEPT !.calls = Append(@, "geocode_address")] IN
       query' = IF query.r.origin_address \notin DOMAIN Places
                THEN Responded(q1, 500, "Geocoding failed")
                ELSE [q1 EXCEPT !.origin = Places[query.r.origin_address],
                                !.base = PointGeometry(Places[query.r.origin_address]),
                                !.pc = IF HasDestination(query.r) THEN "route" ELSE "search"]
    /\ QueryOthers

\* the geometries get_route can hand back, from the provider or the cache
RouteResults(o, d) == IF o = d THEN {<<o>>, <<o, o>>} ELSE {<<o, d>>, <<o>>}

\* lines 88-102
RouteMode ==
    /\ query.pc = "route"
    /\ LET q1 == [query EXCEPT !.calls = Append(@, "geocode_address")]
           q2 == [q1 EXCEPT !.calls = Append(@, "get_route")]
       IN \/ /\ query.r.destination_address \notin DOMAIN Places
             /\ query' = Responded(q1, 500, "Geocoding failed")
          \/ /\ query.r.destination_address \in DOMAIN Places
             /\ \/ query' = Responded(q2, 500, "Routing failed")
                \/ \E coords \in RouteResults(query.origin,
                                              Places[query.r.destination_address]) :
                      query' = IF Len(coords) < 2
                               THEN Responded([q2 EXCEPT !.route_coords = coords], 400,
                                              "Route must contain two different addresses.")
                               ELSE [q2 EXCEPT !.route_coords = coords,
                                               !.base = LineGeometry(coords),
                                               !.pc = "search"]
    /\ QueryOthers

\* the detail of the 500 when an embedding model or the index client raises
\* (`except Exception as e: ... detail=str(e)`)
SearchFaults == {"dense embedding failed", "sparse embedding failed", "query_points failed"}

\* lines 109-137; a call that raises is answered by the handler's
\* `except Exception` with a 500
Search ==
    /\ query.pc = "search"
    /\ LET polygon == Buffer(query.base, query.r.buffer_distance)
           geo == build_geo_filter(polygon)
           date == build_date_intersection_filter(query.r.startinputdate,
                                                  query.r.endinputdate)
           final == build_final_filter(geo, date)
           q1 == [query EXCEPT !.calls = Append(@, "buffer"), !.polygon = polygon,
                               !.geo_filter = geo, !.date_filter = date,
                               !.final_filter = final]
       IN IF query.r.query_text = NoneText
          THEN query' = Responded(q1, 500, "'NoneType' object has no attribute 'strip'")
          ELSE LET asked == HybridQuery(final, query.r.numevents,
                                        ScoreThreshold(query.r.query_text))
                   q2 == [q1 EXCEPT !.calls = Append(@, "passage_embed")]
                   q3 == [q2 EXCEPT !.calls = Append(@, "passage_embed")]
                   q4 == [q3 EXCEPT !.calls = Append(@, "query_points"), !.asked = asked]
               IN \/ query' = Responded(q2, 500, "dense embedding failed")
                  \/ query' = Responded(q3, 500, "sparse embedding failed")
                  \/ query' = Responded(q4, 500, "query_points failed")
                  \/ \E payloads \in query_events_hybrid(collection, asked) :
                        query' = [q4 EXCEPT !.payloads = payloads, !.pc = "sort"]
    /\ QueryOthers

\* lines 139-167
SortAndReturn ==
    /\ query.pc = "sort"
    /\ LET ranked == SortedBy(query.payloads, query.r, query.base, query.origin)
           sorted_events == [i \in 1..Len(ranked) |-> ranked[i].event]
       IN query' = Responded(query, 200,
                             [events |-> sorted_events,
                              route_coords |-> query.route_coords,
                              mode |-> IF HasDestination(query.r) THEN "route" ELSE "point"])
    /\ QueryOthers

SpecQueryInit ==
    QueryInit /\ SweepIdle /\ NormIdle /\ WorkersIdle /\ DeltaIdle /\ HashIdle /\ IngestIdle /\ GeoIdle /\ CacheIdle

SpecQueryNext ==
    \/ ValidateRequest
    \/ GeocodeOrigin
    \/ RouteMode
    \/ Search
    \/ SortAndReturn

SpecQuery == SpecQueryInit /\ [][SpecQueryNext]_vars

(***************************************************************************)
(* /create_map: claims                                                     *)
(***************************************************************************)
Answered(status) == query.pc = "done" /\ query.response.status = status

\* the handler has got the payloads from the index
Searched == query.pc = "sort" \/ Answered(200)

C23_DegenerateRouteRejected ==
    (query.pc \in {"search", "sort", "done"} /\ HasDestination(query.r)
     /\ query.route_coords # <<>> /\ Cardinality(Range(query.route_coords)) < 2)
    => /\ Answered(400)
       /\ \A i \in 1..Len(query.calls) : query.calls[i] \notin {"buffer", "query_points"}

\* the event lies in the polygon and its interval overlaps the window
InCorridorAndWindow(payload) ==
    /\ "location" \in DOMAIN payload
    /\ {"lon", "lat"} \subseteq DOMAIN payload.location
    /\ Dist2(query.base, <<payload.location.lon, payload.location.lat>>)
          <= Sq(query.r.buffer_distance)
    /\ payload.start_date <= query.r.endinputdate
    /\ payload.end_date >= query.r.startinputdate

\* C24: the composite filter accepts an event exactly when its location
\* lies in the polygon and its start <= windowEnd and its end >=
\* windowStart (overlap, not containment); the composite is the conditions
\* of the two input filters, which are left as they were built
C24_CompositeFilter ==
    Searched
    => /\ \A p \in collection :
             Matches(query.final_filter, p.payload) <=> InCorridorAndWindow(p.payload)
       /\ \A i \in 1..Len(query.payloads) : InCorridorAndWindow(query.payloads[i])
       /\ query.geo_filter = build_geo_filter(query.polygon)
       /\ Len(query.geo_filter.must) = 1 /\ Len(query.date_filter.must) = 2
       /\ query.final_filter.must = query.geo_filter.must \o query.date_filter.must

\* the index held an event in the corridor but outside the window and one
\* that overlaps the window in part: only the second came back
C24_Witness ==
    /\ Searched /\ HasDestination(query.r)
    /\ \E p \in collection : p.id = "d"
    /\ \E i \in 1..Len(query.payloads) :
          /\ query.payloads[i].id = "b"
          /\ query.payloads[i].start_date < query.r.startinputdate
    /\ \A i \in 1..Len(query.payloads) : query.payloads[i].id # "d"

\* the distance an answer must be ordered by
OrderKey(payload) ==
    IF HasDestination(query.r)
    THEN Clamp(payload.location.lon, query.route_coords[1][1],
               query.route_coords[Len(query.route_coords)][1]) - query.route_coords[1][1]
    ELSE Sq(payload.location.lon - query.origin[1]) + Sq(payload.location.lat - query.origin[2])

\* C25: the events returned are in non-decreasing order of route progress
\* when a destination is given and of straight-line distance from the
\* origin otherwise, whatever order the index returned them in; they are
\* the events the index returned
C25_SpatialOrder ==
    Answered(200)
    => LET ev == query.response.body.events IN
       /\ \A i, j \in 1..Len(ev) : i < j => OrderKey(ev[i]) <= OrderKey(ev[j])
       /\ Len(ev) = Len(query.payloads)
       /\ Range(ev) = Range(query.payloads)

\* a route answer whose events the index had returned in another order
C25_Witness ==
    /\ Answered(200) /\ HasDestination(query.r)
    /\ Len(query.payloads) = 3
    /\ OrderKey(query.payloads[1]) > OrderKey(query.payloads[3])
    /\ query.response.body.events # query.payloads

\* the point of the collection a payload came from
PointOf(payload) == CHOOSE p \in collection : p.payload = payload

\* C26: a query whose free text is absent (left out or null), empty or
\* whitespace succeeds (when no embedding or index call raises) with a
\* similarity floor of zero, a query with text uses the fixed
\* positive floor, and the floor is put on the dense candidate pool only,
\* not on the sparse pool nor on the fused result
C26_SimilarityFloor ==
    /\ (query.pc = "done"
        /\ (\E i \in 1..Len(query.calls) : query.calls[i] = "buffer")
        /\ ~(Answered(500) /\ query.response.body \in SearchFaults))
       => Answered(200)
    /\ Searched
       => /\ query.asked.dense.score_threshold
                = (IF strip(query.r.query_text) = <<>> THEN 0 ELSE FLOOR)
          /\ FLOOR > 0
          /\ query.asked.sparse.score_threshold = NoneNum
          /\ query.asked.fusion.score_threshold = NoneNum
          /\ \A i \in 1..Len(query.payloads) :
                \/ PointOf(query.payloads[i]).sparse > 0
                \/ PointOf(query.payloads[i]).dense >= query.asked.dense.score_threshold
          /\ \A p \in collection :
                (/\ InCorridorAndWindow(p.payload)
                 /\ p.sparse > 0 \/ p.dense >= query.asked.dense.score_threshold
                 /\ \/ query.asked.limit = NoneNum
                    \/ Cardinality(collection) <= query.asked.limit)
                => \E i \in 1..Len(query.payloads) : query.payloads[i] = p.payload

\* a whitespace-only text: an event below the floor and with no term in
\* common came back
C26_Witness ==
    /\ Searched /\ query.r.query_text = <<" ">>
    /\ query.asked.dense.score_threshold = 0
    /\ \E i \in 1..Len(query.payloads) :
          /\ PointOf(query.payloads[i]).dense < FLOOR
          /\ PointOf(query.payloads[i]).sparse = 0

\* C27: for every query issued, the default result limit included, the
\* dense and the sparse candidate pool are each larger than the final
\* limit, and no more events than the final limit are returned
C27_PoolsWiderThanLimit ==
    (Searched /\ query.asked.limit # NoneNum)
    => /\ query.asked.dense.limit > query.asked.limit
       /\ query.asked.sparse.limit > query.asked.limit
       /\ Len(query.payloads) <= query.asked.limit

(***************************************************************************)
(* Classification of the rows of two CSV files                             *)
(***************************************************************************)
Computed == csvDelta # NotComputed /\ csvDelta # Unused

RowsOf(df, k) == {df.rows[i] : i \in {j \in 1..Len(df.rows) : LabelOf(df.rows[j], csvKeys) = k}}

DeltaRowsOf(k) == {i \in 1..Len(csvDelta.rows) : LabelOf(csvDelta.rows[i], csvKeys) = k}

NonKeyCols(df) == {c \in Range(df.cols) : c \notin Range(csvKeys)}

\* the delta row carries, under the prefix, every non-key cell of the file's row
Carries(row, prefix, src, cols) == \A c \in cols : Get(row, prefix \o c, "?") = src[c]

\* exactly one delta row for key k, tagged t
OneRow(k, t) ==
    /\ Cardinality(DeltaRowsOf(k)) = 1
    /\ \A i \in DeltaRowsOf(k) : csvDelta.rows[i]["delta_type"] = t

CsvClassified ==
    LET KO == Range(KeyLabels(csvOld))
        KN == Range(KeyLabels(csvNew))
        Differ(k) == \E o \in RowsOf(csvOld, k), n \in RowsOf(csvNew, k) :
                        \E c \in NonKeyCols(csvOld) \cup NonKeyCols(csvNew) :
                            Get(o, c, "") # Get(n, c, "")
        Changed == {k \in KO \cap KN : Differ(k)}
    IN  /\ csvDelta.status = "ok"
        /\ \A k \in KN \ KO :
              /\ OneRow(k, "added")
              /\ \A i \in DeltaRowsOf(k) : \E n \in RowsOf(csvNew, k) :
                    Carries(csvDelta.rows[i], "new_", n, NonKeyCols(csvNew))
        /\ \A k \in KO \ KN :
              /\ OneRow(k, "removed")
              /\ \A i \in DeltaRowsOf(k) : \E o \in RowsOf(csvOld, k) :
                    Carries(csvDelta.rows[i], "old_", o, NonKeyCols(csvOld))
        /\ \A k \in Changed :
              /\ OneRow(k, "changed")
              /\ \A i \in DeltaRowsOf(k) :
                    \E o \in RowsOf(csvOld, k), n \in RowsOf(csvNew, k) :
                        /\ Carries(csvDelta.rows[i], "old_", o, NonKeyCols(csvOld))
                        /\ Carries(csvDelta.rows[i], "new_", n, NonKeyCols(csvNew))
        /\ \A k \in (KO \cap KN) \ Changed : DeltaRowsOf(k) = {}
        /\ csvDelta.summary =
              [added   |-> Cardinality(KN \ KO),
               removed |-> Cardinality(KO \ KN),
               changed |-> Cardinality(Changed),
               total   |-> Cardinality(KN \ KO) + Cardinality(KO \ KN)
                              + Cardinality(Changed)]
        /\ csvOld = csvNew =>
              csvDelta.summary = [added |-> 0, removed |-> 0, changed |-> 0, total |-> 0]

CsvDeltaAsSpecified ==
    Computed =>
        IF HasKeyCols(csvOld, csvKeys) /\ HasKeyCols(csvNew, csvKeys)
        THEN CsvClassified
        ELSE csvDelta.status = "HTTPException" /\ csvDelta.code = 400

\* C28 as stated: for any two CSV files, compute_csv_delta emits exactly one
\* added row (new_ fields) per key only in the new file, one removed row
\* (old_ fields) per key only in the old file, one changed row (old_ and new_
\* value of every non-key column) per key of both files whose non-key values
\* differ, and no row for a key whose values are equal; identical files give
\* the summary 0/0/0/0; a key column missing from either file is an error.
C28_CsvDeltaAnyFiles == CsvDeltaAsSpecified

\* C28, amended: the same, for files in which no key occurs twice.
C28_CsvDeltaUniqueKeys ==
    (Distinct(KeyLabels(csvOld)) /\ Distinct(KeyLabels(csvNew))) => CsvDeltaAsSpecified

\* the delta of two files with distinct keys has been computed and holds a
\* changed row and a removed row
C28_Witness ==
    /\ Computed /\ csvDelta.status = "ok"
    /\ Distinct(KeyLabels(csvOld)) /\ Distinct(KeyLabels(csvNew))
    /\ \E i \in 1..Len(csvDelta.rows) : csvDelta.rows[i]["delta_type"] = "changed"
    /\ \E i \in 1..Len(csvDelta.rows) : csvDelta.rows[i]["delta_type"] = "removed"


(***************************************************************************)
(* DELETE /cleanup-past-events (cleanup_past_events).  The collection is   *)
(* a run of point groups in id order, point i of the run carrying the      *)
(* start_date of its group; sweep.remaining holds the ids still stored and *)
(* sweep.queued the ids of deletes sent with wait=False that the server    *)
(* has not applied yet.  Dates are day numbers.                            *)
(***************************************************************************)
QUICK_SCROLL_LIMIT == 100

SCAN_SCROLL_LIMIT == 500

DELETE_BATCH_SIZE == 50

DEFAULT_MAX_SCAN == 50000

\* payload.get("start_date"): absent, an empty text, a text that
\* fromisoformat rejects, or an ISO text (with or without a trailing Z)
StartDate(kind, day) == [kind |-> kind, day |-> day]

Group(n, kind, day) == [n |-> n, start_date |-> StartDate(kind, day)]

RECURSIVE GroupSum(_)
GroupSum(groups) == IF groups = <<>> THEN 0 ELSE Head(groups).n + GroupSum(Tail(groups))

AllIds(groups) == 1..GroupSum(groups)

\* the payload start_date of point id
RECURSIVE StartDateOf(_, _)
StartDateOf(groups, id) ==
    IF id <= Head(groups).n THEN Head(groups).start_date
    ELSE StartDateOf(Tail(groups), id - Head(groups).n)

\* if start_date_str: ... fromisoformat(...).date() < today, parse errors skipped
IsOld(start_date, today) ==
    /\ start_date.kind \in {"iso", "isoZ"}
    /\ start_date.day < today

\* client.scroll(limit, offset): the next points in id order from offset on,
\* and the id the following page starts at (None when there is none)
ScrollPage(groups, remaining, offset, limit) ==
    LET ids  == [i \in 1..GroupSum(groups) |-> i]
        from == SelectSeq(ids, LAMBDA i : i \in remaining /\ (offset = NoneNum \/ i >= offset))
    IN [points |-> Take(from, limit),
        next_offset |-> IF Len(from) > limit THEN from[limit + 1] ELSE NoneNum]

OldOf(sw, page) == SelectSeq(page, LAMBDA i : IsOld(StartDateOf(sw.groups, i), sw.today))

SweepStores ==
    { <<>>,
      <<Group(1, "iso", 9), Group(1, "iso", 10), Group(1, "isoZ", 9)>>,
      <<Group(1, "none", 0), Group(1, "empty", 0), Group(1, "bad", 0), Group(1, "iso", 11)>>,
      <<Group(QUICK_SCROLL_LIMIT, "iso", 9), Group(1, "iso", 9)>>,
      <<Group(DELETE_BATCH_SIZE + 1, "iso", 9), Group(SCAN_SCROLL_LIMIT, "iso", 11)>> }

MaxScans == {0, 1, SCAN_SCROLL_LIMIT, DEFAULT_MAX_SCAN}

SweepInit ==
    \E g \in SweepStores, d \in BOOLEAN, q \in BOOLEAN, m \in MaxScans :
        sweep = [pc |-> "start", dry_run |-> d, quick_delete |-> q, max_scan |-> m,
                 today |-> 10, groups |-> g, remaining |-> AllIds(g), queued |-> {},
                 offset |-> NoneNum, scanned |-> 0, old_point_ids |-> <<>>,
                 i |-> 0, deleted |-> 0, result |-> Unused]

SweepOthers ==
    UNCHANGED <<deltaVars, hashVars, ingestVars, geoVars, cacheVars, queryVars, norm,
                workers>>

\* lines 495 and 551: the mode is chosen by quick_delete alone
ChooseMode ==
    /\ sweep.pc = "start"
    /\ sweep' = [sweep EXCEPT !.pc = IF sweep.quick_delete THEN "quick" ELSE "scan"]
    /\ SweepOthers

\* one turn of the streaming loop (lines 501-545); failed: scroll or delete raised
QuickBatch ==
    /\ sweep.pc = "quick"
    /\ \E failed \in {"no", "scroll", "delete"} :
        LET r == ScrollPage(sweep.groups, sweep.remaining, sweep.offset, QUICK_SCROLL_LIMIT)
            batch_delete == OldOf(sweep, r.points)
        IN sweep' =
            IF failed = "scroll" THEN [sweep EXCEPT !.pc = "quick_done"]
            ELSE IF r.points = <<>>
            THEN [sweep EXCEPT !.pc = "quick_done", !.offset = r.next_offset]
            ELSE IF batch_delete # <<>> /\ failed = "delete"
            THEN [sweep EXCEPT !.pc = "quick_done", !.offset = r.next_offset]
            ELSE [sweep EXCEPT
                    !.offset = r.next_offset,
                    !.queued = @ \cup Range(batch_delete),
                    !.deleted = @ + Len(batch_delete),
                    !.pc = IF r.next_offset = NoneNum THEN "quick_done" ELSE "quick"]
    /\ SweepOthers

\* the server applies the deletes it was sent with wait=False
ApplyQueued ==
    /\ sweep # Unused
    /\ sweep.queued # {}
    /\ sweep' = [sweep EXCEPT !.remaining = @ \ sweep.queued, !.queued = {}]
    /\ SweepOthers

\* client.get_collection raised outside every try: FastAPI answers 500
Http500 == [status |-> "HTTPException", code |-> 500]

\* lines 542-548; failed: get_collection raised
QuickReturn ==
    /\ sweep.pc = "quick_done"
    /\ \E failed \in BOOLEAN :
        sweep' = [sweep EXCEPT
                    !.pc = "done",
                    !.result = IF failed THEN Http500
                               ELSE [status |-> "quick_success", deleted |-> sweep.deleted,
                                     final_points_count |-> Cardinality(sweep.remaining)]]
    /\ SweepOthers

\* one turn of the scanning loop (lines 561-592), or its end
ScanBatch ==
    /\ sweep.pc = "scan"
    /\ \E failed \in BOOLEAN :
        LET r == ScrollPage(sweep.groups, sweep.remaining, sweep.offset, SCAN_SCROLL_LIMIT)
        IN sweep' =
            IF ~(sweep.scanned < sweep.max_scan) \/ failed
            THEN [sweep EXCEPT !.pc = "scanned"]
            ELSE IF r.points = <<>>
            THEN [sweep EXCEPT !.pc = "scanned", !.offset = r.next_offset]
            ELSE [sweep EXCEPT
                    !.offset = r.next_offset,
                    !.old_point_ids = @ \o OldOf(sweep, r.points),
                    !.scanned = @ + Len(r.points),
                    !.pc = IF r.next_offset = NoneNum THEN "scanned" ELSE "scan"]
    /\ SweepOthers

\* lines 594-604
ScanReturn ==
    /\ sweep.pc = "scanned"
    /\ sweep' =
        IF sweep.dry_run \/ Len(sweep.old_point_ids) = 0
        THEN [sweep EXCEPT
                !.pc = "done",
                !.result = [status |-> "dry_run", scanned |-> sweep.scanned,
                            old_events |-> Len(sweep.old_point_ids),
                            sample_ids |-> Take(sweep.old_point_ids, 5)]]
        ELSE [sweep EXCEPT !.pc = "delete", !.i = 0]
    /\ SweepOthers

\* one batch of the real delete (lines 609-616), wait=True; failed: delete raised
DeleteBatch ==
    /\ sweep.pc = "delete"
    /\ sweep.i < Len(sweep.old_point_ids)
    /\ \E failed \in BOOLEAN :
        LET batch == SubSeq(sweep.old_point_ids, sweep.i + 1,
                            IF sweep.i + DELETE_BATCH_SIZE < Len(sweep.old_point_ids)
                            THEN sweep.i + DELETE_BATCH_SIZE
                            ELSE Len(sweep.old_point_ids))
        IN sweep' =
            IF failed THEN [sweep EXCEPT !.i = @ + DELETE_BATCH_SIZE]
            ELSE [sweep EXCEPT !.i = @ + DELETE_BATCH_SIZE,
                               !.remaining = @ \ Range(batch),
                               !.deleted = @ + Len(batch)]
    /\ SweepOthers

\* lines 618-625; failed: get_collection raised
DeleteReturn ==
    /\ sweep.pc = "delete"
    /\ ~(sweep.i < Len(sweep.old_point_ids))
    /\ \E failed \in BOOLEAN :
        sweep' = [sweep EXCEPT
                    !.pc = "done",
                    !.result = IF failed THEN Http500
                               ELSE [status |-> "success", deleted |-> sweep.deleted,
                                     scanned |-> sweep.scanned,
                                     final_points_count |-> Cardinality(sweep.remaining)]]
    /\ SweepOthers

SpecSweepInit ==
    SweepInit /\ QueryIdle /\ NormIdle /\ WorkersIdle /\ DeltaIdle /\ HashIdle /\ IngestIdle /\ GeoIdle /\ CacheIdle

SpecSweepNext ==
    \/ ChooseMode
    \/ QuickBatch
    \/ ApplyQueued
    \/ QuickReturn
    \/ ScanBatch
    \/ ScanReturn
    \/ DeleteBatch
    \/ DeleteReturn

SpecSweep == SpecSweepInit /\ [][SpecSweepNext]_vars

\* C29: a call of cleanup_past_events with dry_run = true only scans: for
\* every value of quick_delete and max_scan it deletes no point (no delete is
\* sent, and every point stored at the start is still stored).
C29_DryRunDeletesNothing ==
    (sweep # Unused /\ sweep.dry_run) =>
        /\ sweep.queued = {}
        /\ sweep.remaining = AllIds(sweep.groups)

(***************************************************************************)
(* One point per logical event                                             *)
(***************************************************************************)
\* C30: after any sequence of ingestion runs over any snapshots, the index
\* holds at most one point whose payload id equals a given natural key.
C30_OnePointPerKey ==
    \A p, q \in index :
        ("id" \in DOMAIN p.payload /\ "id" \in DOMAIN q.payload
            /\ p.payload["id"] = q.payload["id"]) => p = q

(***************************************************************************)
(* What an ingestion run may touch                                         *)
(***************************************************************************)
KeyOfPoint(p) == Get(p.payload, "id", "")

\* the records of the input that carry natural key k
RecordsOfKey(k) == {i \in 1..Len(events) : EventId(events[i], entry) = k}

SameHash(p, i) == Get(p.payload, "hash", "") = chunk_hash(events[i])

\* a point the run has to leave alone: its key is not in the input, or its
\* stored hash is the hash of an input record of its key
Untouchable(p) ==
    \/ RecordsOfKey(KeyOfPoint(p)) = {}
    \/ \E i \in RecordsOfKey(KeyOfPoint(p)) : SameHash(p, i)

\* the same, with every input record of the key having the stored hash
UntouchableAll(p) == \A i \in RecordsOfKey(KeyOfPoint(p)) : SameHash(p, i)

\* what the run sent is a new point for a key (under an id the index did not
\* hold) or the replacement of a point of the same key with another hash,
\* and what it deleted are the ids of records tagged removed
OnlyCreatesReplacesDeletes ==
    /\ \A w \in SentPoints :
          \/ /\ w.id \notin {p.id : p \in log.index0}
             /\ RecordsOfKey(KeyOfPoint(w)) # {}
          \/ \E p \in log.index0 :
                /\ p.id = w.id /\ KeyOfPoint(p) = KeyOfPoint(w)
                /\ Get(p.payload, "hash", "") # Get(w.payload, "hash", "")
    /\ \A d \in log.deleted :
          \E i \in 1..Len(events) : IsRemoved(events[i]) /\ DeleteId(events[i]) = d

IngestFrame(Keep(_)) ==
    Started =>
        /\ \A p \in log.index0 : Keep(p) =>
              /\ \A w \in SentPoints : w.id # p.id
              /\ log.settled => (p \in index /\ p \in ApplyAll(index, pending))
        /\ OnlyCreatesReplacesDeletes

\* no natural key occurs twice in the input
KeysOnce ==
    \A i, j \in 1..Len(events) :
        (EventId(events[i], entry) # "" /\ EventId(events[i], entry) = EventId(events[j], entry))
            => i = j

\* C31 as stated: an ingestion run leaves untouched (same id, vectors and
\* payload) every index point whose natural key does not occur in the input
\* and every index point whose stored hash equals the hash of its input
\* record; it only creates points for new keys, replaces points of keys with
\* a hash mismatch and deletes points of records tagged removed.
C31_IngestFrame == IngestFrame(Untouchable)


\* C31, amended: the same, for an input in which no natural key occurs twice.
C31_IngestFrameKeysOnce == KeysOnce => IngestFrame(Untouchable)

\* a run over such an input has returned after skipping the record of one
\* stored point and replacing or creating another point
C31_Witness ==
    /\ Finished /\ KeysOnce /\ log.settled
    /\ log.skipped # {} /\ SentPoints # {}
    /\ \E p \in log.index0 : Untouchable(p) /\ RecordsOfKey(KeyOfPoint(p)) # {}


(***************************************************************************)
(* The flattened geo sub-object of the payload                             *)
(***************************************************************************)
\* C32: every upserted record that carries a valid coordinate pair (latitude
\* in [-90, 90], longitude in [-180, 180], a latitude or longitude of 0
\* included) has lat and lon in its payload location, equal to the pair;
\* lat and lon are both present or both absent; only records without
\* coordinates lack them.
C32_GeoSubObject ==
    log # NotComputed =>
        \A p \in SentPoints :
            LET loc == p.payload["location"]
                lat == Get(loc, "latitude", NoneNum)
                lon == Get(loc, "longitude", NoneNum)
            IN /\ ("lat" \in DOMAIN loc) <=> ("lon" \in DOMAIN loc)
               /\ is_valid_lat_lon(lat, lon) =>
                     /\ "lat" \in DOMAIN loc /\ "lon" \in DOMAIN loc
                     /\ loc["lat"] = lat /\ loc["lon"] = lon
               /\ (lat = NoneNum /\ lon = NoneNum) => "lat" \notin DOMAIN loc


(***************************************************************************)
(* Text normalization: ingest_service.normalize_text (and its copy in      *)
(* ingest_ticketsqueeze_delta) and ticketsqueeze.normalize_text, applied   *)
(* to one text                                                             *)
(***************************************************************************)
\* ticketsqueeze.normalize_text: str(text).strip(), NFKC
ticketsqueeze_normalize_text(text) ==
    IF text = <<>> THEN <<>> ELSE Nfkc(strip(text))

NormChars == {"a", " ", "LIG_FI", "DIAERESIS", "NBSP"}

MaxText == 3

\* n times the letter a
Fill(n) == [i \in 1..n |-> "a"]

\* short texts, and texts that reach the cap within their last characters
NormTexts ==
    SeqsUpTo(NormChars, MaxText)
    \cup {Fill(n) \o t : n \in {TEXT_CAP - 2, TEXT_CAP - 1}, t \in SeqsUpTo(NormChars, MaxText - 1)}

NormInit ==
    /\ \E t \in NormTexts :
          norm = [text |-> t, ingest |-> NotComputed, again |-> NotComputed,
                  adapter |-> NotComputed]

NormOthers ==
    UNCHANGED <<deltaVars, hashVars, ingestVars, geoVars, cacheVars, queryVars, sweep, workers>>

\* ingestion normalizes the text
NormalizeIngest ==
    /\ norm.ingest = NotComputed
    /\ norm' = [norm EXCEPT !.ingest = [status |-> "ok", text |-> normalize_text(norm.text)]]
    /\ NormOthers

\* the stored text is normalized again (re-ingestion of the same content)
NormalizeAgain ==
    /\ norm.ingest # NotComputed /\ norm.again = NotComputed
    /\ norm' = [norm EXCEPT !.again = [status |-> "ok", text |-> normalize_text(norm.ingest.text)]]
    /\ NormOthers

\* the adapter normalizes the text
NormalizeAdapter ==
    /\ norm.adapter = NotComputed
    /\ norm' = [norm EXCEPT
                  !.adapter = [status |-> "ok", text |-> ticketsqueeze_normalize_text(norm.text)]]
    /\ NormOthers

SpecNormInit ==
    NormInit /\ QueryIdle /\ SweepIdle /\ WorkersIdle /\ DeltaIdle /\ HashIdle /\ IngestIdle /\ GeoIdle
             /\ CacheIdle

SpecNormNext == NormalizeIngest \/ NormalizeAgain \/ NormalizeAdapter

SpecNorm == SpecNormInit /\ [][SpecNormNext]_vars

Trimmed(t) == t = <<>> \/ (Head(t) \notin Whitespace /\ t[Len(t)] \notin Whitespace)

\* no character of the text has a compatibility decomposition left
Normalized(t) == \A i \in 1..Len(t) : NfkcChar(t[i]) = <<t[i]>>

\* C33: for every text, normalize_text returns a text that is trimmed, at
\* most TEXT_CAP characters long and Unicode-normalized, and normalize_text
\* of its own output is that output.
C33_NormalizeTextStable ==
    /\ norm.ingest # NotComputed =>
          /\ Trimmed(norm.ingest.text)
          /\ Len(norm.ingest.text) <= TEXT_CAP
          /\ Normalized(norm.ingest.text)
    /\ (norm.ingest # NotComputed /\ norm.again # NotComputed) =>
          norm.again.text = norm.ingest.text

\* C34: for every text, ticketsqueeze.normalize_text returns what
\* ingest_service.normalize_text returns.
C34_AdapterMatchesIngest ==
    (norm.ingest # NotComputed /\ norm.adapter # NotComputed) =>
        norm.adapter.text = norm.ingest.text


(***************************************************************************)
(* geocode_address called by several workers on one cache.db.  Each `with  *)
(* get_db_connection()` block is one transaction and so one step; the      *)
(* provider calls between the blocks are steps of their own.               *)
(***************************************************************************)
MaxWorkers == 2

\* the table at the start: empty, one row below the ceiling, or at the ceiling
WorkerPreloads ==
    { {}, {Bulk(MAX_CACHE_SIZE - 1, <<0, 0>>)}, PreGeocode("full") }

WorkersInit ==
    /\ clock = 1
    /\ geocode_cache \in WorkerPreloads
    /\ route_cache = {}
    /\ call = NoCall
    /\ clog = [geocode_address |-> {}, get_route |-> {},
               calls |-> 0, evictions |-> 0, cleanups |-> 0]
    /\ workers = [p \in 1..MaxWorkers |-> NoCall]

WorkersOthers ==
    UNCHANGED <<deltaVars, hashVars, ingestVars, geoVars, queryVars, sweep, norm,
                clock, route_cache, call, clog>>

\* lines 152-156
WorkerCall(p) ==
    /\ workers[p].pc = "idle"
    /\ \E address \in Addresses :
         LET a == strip(address) IN
         workers' = [workers EXCEPT ![p] =
                        IF Len(a) < 3
                        THEN Ended(Begin("geocode_address", a, md5(lower(a))),
                                   ValueError("Address too short"))
                        ELSE Begin("geocode_address", a, md5(lower(a)))]
    /\ UNCHANGED geocode_cache
    /\ WorkersOthers

\* lines 158-165
WorkerRead(p) ==
    /\ workers[p].pc = "read"
    /\ LET found == Select(geocode_cache, workers[p].key, workers[p].now) IN
       workers' = [workers EXCEPT ![p] =
                      IF found # {}
                      THEN LET r == CHOOSE x \in found : TRUE IN
                           Ended([@ EXCEPT !.hit = TRUE], Returned(r.value))
                      ELSE [@ EXCEPT !.pc = "cleanup"]]
    /\ UNCHANGED geocode_cache
    /\ WorkersOthers

\* line 167, cleanup_cache("geocode_cache") is entered: it reads the clock
\* (line 100) before it opens its connection
WorkerCleanupNow(p) ==
    /\ workers[p].pc = "cleanup"
    /\ workers' = [workers EXCEPT ![p] = [@ EXCEPT !.clean_now = Now, !.pc = "cleanup_tx"]]
    /\ UNCHANGED geocode_cache
    /\ WorkersOthers

\* the transaction of cleanup_cache (lines 101-123), with the clock value
\* read before it
WorkerCleanup(p) ==
    /\ workers[p].pc = "cleanup_tx"
    /\ geocode_cache' \in cleanup_cache(geocode_cache, workers[p].clean_now)
    /\ workers' = [workers EXCEPT ![p] = [@ EXCEPT !.cleaned = TRUE, !.pc = "photon"]]
    /\ WorkersOthers

\* lines 169-172
WorkerPhoton(p) ==
    /\ workers[p].pc = "photon"
    /\ \E res \in PhotonResults : workers' = [workers EXCEPT ![p] = AfterPhoton(@, res)]
    /\ UNCHANGED geocode_cache
    /\ WorkersOthers

\* lines 174-186
WorkerOrs(p) ==
    /\ workers[p].pc = "ors"
    /\ \E res \in OrsResults : workers' = [workers EXCEPT ![p] = AfterOrs(@, res)]
    /\ UNCHANGED geocode_cache
    /\ WorkersOthers

\* lines 188-197
WorkerWrite(p) ==
    /\ workers[p].pc = "write"
    /\ geocode_cache' = InsertOrReplace(geocode_cache, workers[p].key,
                                        <<workers[p].lon, workers[p].lat>>,
                                        workers[p].now + CACHE_TTL, Now)
    /\ workers' = [workers EXCEPT ![p] =
                      Ended([@ EXCEPT !.wrote = TRUE], Returned(<<@.lon, @.lat>>))]
    /\ WorkersOthers

SpecWorkersInit ==
    WorkersInit /\ QueryIdle /\ SweepIdle /\ NormIdle /\ DeltaIdle /\ HashIdle /\ IngestIdle
                /\ GeoIdle

SpecWorkersNext ==
    \/ CacheTick
    \/ \E p \in 1..MaxWorkers : WorkerCall(p)
    \/ \E p \in 1..MaxWorkers : WorkerRead(p)
    \/ \E p \in 1..MaxWorkers : WorkerCleanupNow(p)
    \/ \E p \in 1..MaxWorkers : WorkerCleanup(p)
    \/ \E p \in 1..MaxWorkers : WorkerPhoton(p)
    \/ \E p \in 1..MaxWorkers : WorkerOrs(p)
    \/ \E p \in 1..MaxWorkers : WorkerWrite(p)

SpecWorkers == SpecWorkersInit /\ [][SpecWorkersNext]_vars

Unexpired(table) == SumN({r \in table : Fresh(r, clock)})

\* C35: in every reachable state, the states reached by interleaved
\* concurrent calls of geocode_address included, the number of unexpired
\* rows of a cache table is at most MAX_CACHE_SIZE.
C35_CacheBounded ==
    /\ Unexpired(geocode_cache) <= MAX_CACHE_SIZE
    /\ Unexpired(route_cache) <= MAX_CACHE_SIZE


(***************************************************************************)
(* The counters an ingestion run returns                                   *)
(***************************************************************************)
RECURSIVE SentCount(_)
SentCount(batches) ==
    IF batches = <<>> THEN 0 ELSE Len(Head(batches)) + SentCount(Tail(batches))

CountersCoverKeyed ==
    Get(result, "inserted", 0) + Get(result, "updated", 0)
        + Get(result, "skipped_unchanged", 0)
    = Cardinality(KeyedPositions(events, entry))

\* C36: counter conservation.  When an ingestion run returns, inserted +
\* updated + skipped_unchanged is the number of processed records that have a
\* natural key, and inserted + updated is the number of points the run
\* wrote to the index.
C36_CountersConserved ==
    Finished =>
        /\ CountersCoverKeyed
        /\ Get(result, "inserted", 0) + Get(result, "updated", 0) = SentCount(log.sent)


(***************************************************************************)
(* The summary compute_csv_delta returns with the delta table              *)
(***************************************************************************)
RowsTagged(t) ==
    Cardinality({i \in 1..Len(csvDelta.rows) : csvDelta.rows[i]["delta_type"] = t})

\* C37: tabular summary consistency.  For every pair of CSV inputs, files in
\* which a key occurs in several rows included, the summary of
\* compute_csv_delta has total = added + removed + changed, total is the
\* number of rows of the delta table, and each count is the number of delta
\* rows carrying that delta_type.
C37_SummaryConsistent ==
    (Computed /\ csvDelta.status = "ok") =>
        LET sm == csvDelta.summary
        IN  /\ sm.total = sm.added + sm.removed + sm.changed
            /\ sm.total = Len(csvDelta.rows)
            /\ sm.added = RowsTagged("added")
            /\ sm.removed = RowsTagged("removed")
            /\ sm.changed = RowsTagged("changed")


=========================================================================
